---------------------------- MODULE Spec2Model ----------------------------
(***************************************************************************)
(* A model of the lazorkit-demo transfer form (src/src/components/         *)
(* SendUSDC.tsx), the status panel it renders (TxStatus.tsx) and the page  *)
(* that mounts it while a wallet session exists (src/src/app/page.tsx).    *)
(*                                                                         *)
(* JavaScript strings that the code inspects character by character        *)
(* (trim, parseFloat, String.prototype.includes) are sequences of          *)
(* one-character strings; strings the code only stores or compares are     *)
(* TLA+ strings.                                                           *)
(***************************************************************************)
EXTENDS Integers, Sequences, FiniteSets, TLC

(***************************************************************************)
(* Bounds of the model.                                                    *)
(***************************************************************************)
\* handleSubmit invocations started in one behaviour
MaxSubmits == 2
\* wallet sessions (mounts of the form) in one behaviour
MaxMounts == 2
\* fetchBalances invocations started in one behaviour
MaxFetches == 2
\* handleCopy invocations started in one behaviour
MaxCopies == 1
\* handleConnect invocations started in one behaviour
MaxConnects == 3
\* length of the longest address passed to truncateAddress
MaxAddressLen == 20
\* largest chars passed to truncateAddress
MaxChars == 8

(***************************************************************************)
(* Program constants.                                                      *)
(***************************************************************************)
USDC_DECIMALS == 6
rentExempt == 2039280
LAMPORTS_PER_SOL == 1000000000

(***************************************************************************)
(* Character strings.                                                      *)
(***************************************************************************)
Digits == <<"0", "1", "2", "3", "4", "5", "6", "7", "8", "9">>

IsDigit(c) == \E d \in 1..10 : Digits[d] = c

DigitVal(c) == (CHOOSE d \in 1..10 : Digits[d] = c) - 1

\* White space as String.prototype.trim and parseFloat see it.
IsWhiteSpace(c) == c \in {" ", "\t", "\n"}

RECURSIVE TrimStart(_)
TrimStart(s) ==
    IF s # <<>> /\ IsWhiteSpace(Head(s)) THEN TrimStart(Tail(s)) ELSE s

RECURSIVE TrimEnd(_)
TrimEnd(s) ==
    IF s # <<>> /\ IsWhiteSpace(s[Len(s)])
    THEN TrimEnd(SubSeq(s, 1, Len(s) - 1))
    ELSE s

\* String.prototype.trim
Trim(s) == TrimEnd(TrimStart(s))

\* s has the characters of w at positions i .. i + Len(w) - 1
MatchesAt(s, i, w) ==
    /\ i >= 1
    /\ i + Len(w) - 1 <= Len(s)
    /\ \A k \in 1..Len(w) : s[i + k - 1] = w[k]

\* String.prototype.includes
Includes(s, w) == \E i \in 1..(Len(s) + 1) : MatchesAt(s, i, w)

RECURSIVE Pow10(_)
Pow10(n) == IF n <= 0 THEN 1 ELSE 10 * Pow10(n - 1)

\* The number of consecutive decimal digits of s from position i on.
RECURSIVE DigitRun(_, _)
DigitRun(s, i) ==
    IF i >= 1 /\ i <= Len(s) /\ IsDigit(s[i]) THEN 1 + DigitRun(s, i + 1) ELSE 0

\* The value of the n decimal digits of s from position i on.
RECURSIVE DigitsValue(_, _, _)
DigitsValue(s, i, n) ==
    IF n = 0 THEN 0
    ELSE 10 * DigitsValue(s, i, n - 1) + DigitVal(s[i + n - 1])

RECURSIVE NumDigits(_)
NumDigits(m) == IF m < 10 THEN 1 ELSE 1 + NumDigits(m \div 10)

\* The four leading decimal digits of m > 0, as a number in 1000..9999.
RECURSIVE Lead4(_)
Lead4(m) ==
    IF m >= 10000 THEN Lead4(m \div 10)
    ELSE IF m < 1000 THEN Lead4(m * 10)
    ELSE m

(***************************************************************************)
(* Numbers.  A JavaScript number is NaN, an infinity, or the finite value  *)
(* (-1)^neg * mant * 10^exp.                                               *)
(***************************************************************************)
NaN == [kind |-> "nan", neg |-> FALSE, mant |-> 0, exp |-> 0]

Infinite(neg) == [kind |-> "inf", neg |-> neg, mant |-> 0, exp |-> 0]

Finite(neg, mant, exp) == [kind |-> "fin", neg |-> neg, mant |-> mant, exp |-> exp]

InfinityLiteral == <<"I", "n", "f", "i", "n", "i", "t", "y">>

\* The double nearest to mant * 10^exp: an infinity from the rounding
\* threshold 1.797693...e308 on, zero up to half the least subnormal
\* 2.470328...e-324.  Exact for mantissas of at most four digits.
ToDouble(neg, mant, exp) ==
    LET sci == NumDigits(mant) - 1 + exp
    IN  IF mant = 0 THEN Finite(neg, 0, 0)
        ELSE IF sci > 308 \/ (sci = 308 /\ Lead4(mant) >= 1798) THEN Infinite(neg)
        ELSE IF sci < -324 \/ (sci = -324 /\ Lead4(mant) <= 2470) THEN Finite(neg, 0, 0)
        ELSE Finite(neg, mant, exp)

\* F(v), with v worked out once.
Value(v, F(_)) == CHOOSE r \in { F(x) : x \in {v} } : TRUE

\* parseFloat from the exponent part on: s holds a mantissa of value mant
\* with nFrac fraction digits that ends before position q.
ParseExponent(s, neg, mant, nFrac, q) ==
    LET hasE   == q <= Len(s) /\ s[q] \in {"e", "E"}
        eSign  == hasE /\ q + 1 <= Len(s) /\ s[q + 1] \in {"+", "-"}
        eNeg   == eSign /\ s[q + 1] = "-"
        eStart == q + 1 + (IF eSign THEN 1 ELSE 0)
    IN  Value(IF hasE THEN DigitRun(s, eStart) ELSE 0,
              LAMBDA nExp :
                  Value(DigitsValue(s, eStart, nExp),
                        LAMBDA eAbs :
                            ToDouble(neg, mant, (IF eNeg THEN 0 - eAbs ELSE eAbs) - nFrac)))

\* parseFloat from the decimal point on: s holds nInt integer digits from
\* position p on.  Without a digit before or after the point there is no
\* number.
ParseFraction(s, neg, p, nInt) ==
    LET hasDot == p + nInt <= Len(s) /\ s[p + nInt] = "."
    IN  Value(IF hasDot THEN DigitRun(s, p + nInt + 1) ELSE 0,
              LAMBDA nFrac :
                  IF nInt + nFrac = 0 THEN NaN
                  ELSE Value(DigitsValue(s, p, nInt) * Pow10(nFrac)
                                 + DigitsValue(s, p + nInt + 1, nFrac),
                             LAMBDA mant :
                                 ParseExponent(s, neg, mant, nFrac,
                                     p + nInt + (IF hasDot THEN 1 + nFrac ELSE 0))))

\* parseFloat of a string without leading white space: a sign, then
\* "Infinity" or the longest prefix that is a decimal literal.
ParseSigned(s) ==
    LET hasSign == Len(s) >= 1 /\ s[1] \in {"+", "-"}
        neg     == hasSign /\ s[1] = "-"
        p       == IF hasSign THEN 2 ELSE 1
    IN  IF MatchesAt(s, p, InfinityLiteral) THEN Infinite(neg)
        ELSE Value(DigitRun(s, p), LAMBDA nInt : ParseFraction(s, neg, p, nInt))

\* parseFloat: leading white space is skipped; NaN when no number follows.
ParseFloat(str) == Value(TrimStart(str), ParseSigned)

\* isNaN(x)
IsNaN(x) == x.kind = "nan"

\* x <= 0
LeqZero(x) ==
    \/ x.kind = "inf" /\ x.neg
    \/ x.kind = "fin" /\ (x.neg \/ x.mant = 0)


(***************************************************************************)
(* Amount conversion and number formatting.                                *)
(***************************************************************************)
RangeErrorMessage ==
    <<"T", "h", "e", " ", "n", "u", "m", "b", "e", "r", " ",
      "I", "n", "f", "i", "n", "i", "t", "y", " ",
      "c", "a", "n", "n", "o", "t", " ", "b", "e", " ",
      "c", "o", "n", "v", "e", "r", "t", "e", "d", " ", "t", "o", " ", "a", " ",
      "B", "i", "g", "I", "n", "t", " ", "b", "e", "c", "a", "u", "s", "e", " ",
      "i", "t", " ", "i", "s", " ", "n", "o", "t", " ", "a", "n", " ",
      "i", "n", "t", "e", "g", "e", "r">>

\* A thrown value: an Error (or subclass) with a name and a message, or a
\* value that is not an Error (a thrown string, for one).
ErrorValue(name, message) == [isError |-> TRUE, name |-> name, message |-> message]

NonErrorValue(message) == [isError |-> FALSE, name |-> "", message |-> message]

\* Math.trunc in the place of Math.round.
MathTrunc(mant, exp) ==
    IF exp >= 0 THEN mant * Pow10(exp)
    ELSE IF NumDigits(mant) <= 0 - exp THEN 0
    ELSE mant \div Pow10(0 - exp)

\* Math.round(x) of the non-negative value mant * 10^exp: the nearest integer,
\* halves upwards.
MathRound(mant, exp) ==
    IF exp >= 0 THEN mant * Pow10(exp)
    ELSE IF NumDigits(mant) < 0 - exp THEN 0
    ELSE (2 * mant + Pow10(0 - exp)) \div (2 * Pow10(0 - exp))

\* BigInt(Math.round(amountNum * Math.pow(10, USDC_DECIMALS))) for amountNum > 0:
\* the base units, or the RangeError BigInt throws for an infinity.
\* amountNum * Math.pow(10, USDC_DECIMALS)
TimesUnit(amountNum) ==
    IF amountNum.kind = "fin"
    THEN ToDouble(amountNum.neg, amountNum.mant, amountNum.exp + USDC_DECIMALS)
    ELSE amountNum

\* BigInt(Math.round(product)) for product > 0.
RoundToBigInt(product) ==
    IF product.kind = "fin"
    THEN [ok |-> TRUE, value |-> MathRound(product.mant, product.exp),
          thrown |-> NonErrorValue(<<>>)]
    ELSE [ok |-> FALSE, value |-> 0,
          thrown |-> ErrorValue("RangeError", RangeErrorMessage)]

ToBaseUnits(amountNum) == Value(Value(amountNum, TimesUnit), RoundToBigInt)

\* The w low decimal digits of f, with leading zeros.
RECURSIVE PadDigits(_, _)
PadDigits(f, w) ==
    IF w = 0 THEN "" ELSE PadDigits(f \div 10, w - 1) \o ToString(f % 10)

\* The fraction f of w digits without its trailing zeros (f > 0).
RECURSIVE FractionDigits(_, _)
FractionDigits(f, w) ==
    IF f % 10 = 0 THEN FractionDigits(f \div 10, w - 1) ELSE PadDigits(f, w)

\* `${Number(amount) / Math.pow(10, USDC_DECIMALS)}`: the shortest decimal
\* of base units / 10^6.
FormatUsdc(baseUnits) ==
    LET unit == Pow10(USDC_DECIMALS)
    IN  IF baseUnits % unit = 0 THEN ToString(baseUnits \div unit)
        ELSE ToString(baseUnits \div unit) \o "."
                 \o FractionDigits(baseUnits % unit, USDC_DECIMALS)

\* (solBalance / 1e9).toFixed(4): four decimals, nearest, halves upwards.
FormatSolFixed4(lamports) ==
    LET n == (lamports + 50000) \div 100000
    IN  ToString(n \div 10000) \o "." \o PadDigits(n % 10000, 4)

(***************************************************************************)
(* User-facing messages.                                                   *)
(***************************************************************************)
MsgNotConnected == "Wallet not connected"

MsgInvalidRecipient == "Invalid recipient address"

MsgEnterAmount == "Please enter an amount"

MsgAmountPositive == "Amount must be greater than 0"

InsufficientUsdcText(baseUnits) ==
    "Insufficient USDC balance. You have " \o FormatUsdc(baseUnits) \o " USDC"

MsgNoUsdc == "No USDC balance found. Please fund your wallet with USDC first."

NeedSolText(lamports) ==
    "Need ~0.002 SOL to create recipient's token account. You have "
        \o FormatSolFixed4(lamports) \o " SOL. Get more SOL from faucet.solana.com"

MsgGeneric == "Transfer failed. Please try again."

MsgLamports ==
    "Need more SOL to create recipient's token account. Get SOL from faucet.solana.com"

MsgInsufficientFunds == "Insufficient funds for this transaction."

MsgRejected == "Transaction was rejected."

MsgTimedOut == "Transaction timed out. Please try again."

MsgNetwork == "Network error. Please check your connection."

MsgTokenAccount == "Token account error. Please try again."

MsgCancelled == "Operation was cancelled. Please try again."

(***************************************************************************)
(* Classification of a caught error (the catch block of handleSubmit).     *)
(***************************************************************************)
W_lamports == <<"l", "a", "m", "p", "o", "r", "t", "s">>
W_insufficient == <<"i", "n", "s", "u", "f", "f", "i", "c", "i", "e", "n", "t">>
W_Insufficient == <<"I", "n", "s", "u", "f", "f", "i", "c", "i", "e", "n", "t">>
W_rejected == <<"r", "e", "j", "e", "c", "t", "e", "d">>
W_Rejected == <<"R", "e", "j", "e", "c", "t", "e", "d">>
W_timeout == <<"t", "i", "m", "e", "o", "u", "t">>
W_timed_out == <<"t", "i", "m", "e", "d", " ", "o", "u", "t">>
W_network == <<"n", "e", "t", "w", "o", "r", "k">>
W_Network == <<"N", "e", "t", "w", "o", "r", "k">>
W_TokenOwnerOffCurve ==
    <<"T", "o", "k", "e", "n", "O", "w", "n", "e", "r", "O", "f", "f", "C", "u", "r", "v", "e">>
W_not_allowed == <<"n", "o", "t", " ", "a", "l", "l", "o", "w", "e", "d">>
W_cancelled == <<"c", "a", "n", "c", "e", "l", "l", "e", "d">>
W_insufficient_lamports == W_insufficient \o <<" ">> \o W_lamports

\* The classification with the general insufficient-funds test first.
ClassifyErrorInsufficientFirst(error) ==
    IF ~error.isError THEN MsgGeneric
    ELSE IF Includes(error.message, W_insufficient)
            \/ Includes(error.message, W_Insufficient) THEN MsgInsufficientFunds
    ELSE IF Includes(error.message, W_lamports) THEN MsgLamports
    ELSE IF Includes(error.message, W_rejected)
            \/ Includes(error.message, W_Rejected) THEN MsgRejected
    ELSE IF Includes(error.message, W_timeout)
            \/ Includes(error.message, W_timed_out) THEN MsgTimedOut
    ELSE IF Includes(error.message, W_network)
            \/ Includes(error.message, W_Network) THEN MsgNetwork
    ELSE IF Includes(error.message, W_TokenOwnerOffCurve)
            \/ error.name = "TokenOwnerOffCurveError" THEN MsgTokenAccount
    ELSE IF Includes(error.message, W_not_allowed)
            \/ Includes(error.message, W_cancelled) THEN MsgCancelled
    ELSE MsgGeneric

ClassifyError(error) ==
    IF ~error.isError THEN MsgGeneric
    ELSE IF Includes(error.message, W_insufficient_lamports)
            \/ Includes(error.message, W_lamports) THEN MsgLamports
    ELSE IF Includes(error.message, W_insufficient)
            \/ Includes(error.message, W_Insufficient) THEN MsgInsufficientFunds
    ELSE IF Includes(error.message, W_rejected)
            \/ Includes(error.message, W_Rejected) THEN MsgRejected
    ELSE IF Includes(error.message, W_timeout)
            \/ Includes(error.message, W_timed_out) THEN MsgTimedOut
    ELSE IF Includes(error.message, W_network)
            \/ Includes(error.message, W_Network) THEN MsgNetwork
    ELSE IF Includes(error.message, W_TokenOwnerOffCurve)
            \/ error.name = "TokenOwnerOffCurveError" THEN MsgTokenAccount
    ELSE IF Includes(error.message, W_not_allowed)
            \/ Includes(error.message, W_cancelled) THEN MsgCancelled
    ELSE MsgGeneric


(***************************************************************************)
(* Values the environment supplies: what the user types, what the wallet   *)
(* SDK reports, and what the RPC and signing calls return or throw.        *)
(***************************************************************************)
\* null, for a wallet key the SDK does not report
NoKey == <<>>

WalletKeys == { <<"W">> }

\* The strings new PublicKey(...) accepts (base58 of 32 bytes), abridged.
ValidAddresses == { <<"A">>, <<"W">> }

\* What the user types while the model follows every interleaving.
RecipientInputs == { <<"x">>, <<" ", "A", " ">> }

AmountInputs == { <<"0">>, <<"1">>, <<"0", ".", "5">> }

\* What the fields can hold at a submit.
RecipientTexts == RecipientInputs \cup { <<>>, <<" ">>, <<" ", "\t">>, <<"A">>, <<"A", " ", "A">> }

AmountTexts ==
    AmountInputs \cup
    { <<>>, <<" ">>, <<" ", "0", ".", "5">>, <<"0", ".", "1">>,
      <<"1", ".", "0", "0", "0", "0", "0", "0", "5">>,
      <<"0", ".", "9", "9", "9", "9", "9", "9", "6">>, <<"x">>, <<"-", "1">>, <<"-", "0">>, <<"0", ".", "0">>, <<".">>,
      <<"N", "a", "N">>, <<"-">>, <<"e", "5">>, <<"1", "x">>, <<".", "5">>,
      <<"5", "e", "-", "1">>, <<"1", ".", "e", "0">>,
      InfinityLiteral, <<"-">> \o InfinityLiteral,
      <<"1", "e", "4", "0", "0">>, <<"1", "e", "3", "0", "3">>,
      <<"1", "e", "-", "4", "0", "0">>, <<"1", "e", "-", "1", "4">> }

\* Token balances of the sender's account, in base units.
SenderAmounts == { 0, 499999, 500000, 1000000 }

\* SOL balances of the sender, in lamports.
SolBalances == { 0, 2039279, 2039280 }

Signatures == { "sig1", "sig2" }

\* Values the signing call and the SOL balance query can reject with.
ThrownValues ==
    { ErrorValue("Error", W_insufficient_lamports),
      ErrorValue("Error", <<"T", "x", " ">> \o W_rejected \o <<":", " ">> \o W_lamports),
      ErrorValue("Error", W_Insufficient \o <<" ", "f", "u", "n", "d", "s">>),
      ErrorValue("Error", W_rejected \o <<":", " ">> \o W_insufficient),
      ErrorValue("Error", <<"U", "s", "e", "r", " ">> \o W_rejected),
      ErrorValue("Error", W_timeout \o <<",", " ">> \o W_Rejected),
      ErrorValue("Error", <<"R", "e", "q", "u", "e", "s", "t", " ">> \o W_timed_out),
      ErrorValue("Error", W_Network \o <<" ">> \o W_timeout),
      ErrorValue("Error", W_network),
      ErrorValue("Error", W_TokenOwnerOffCurve \o <<" ">> \o W_network),
      ErrorValue("TokenOwnerOffCurveError", <<>>),
      ErrorValue("TokenOwnerOffCurveError", W_cancelled),
      ErrorValue("Error", W_cancelled \o <<" ">> \o W_TokenOwnerOffCurve),
      ErrorValue("Error", W_not_allowed),
      ErrorValue("Error", W_cancelled),
      ErrorValue("Error", <<"L", "a", "m", "p", "o", "r", "t", "s">>),
      ErrorValue("Error", <<"b", "o", "o", "m">>),
      NonErrorValue(W_rejected),
      NonErrorValue(W_lamports) }

\* The rejections followed through every interleaving.
ThrownFew ==
    { ErrorValue("Error", W_Network \o <<" ">> \o W_timeout),
      NonErrorValue(W_rejected) }

\* The two balance messages for each balance a query can return, worked
\* out once.
MsgInsufficientUsdc == [a \in SenderAmounts |-> InsufficientUsdcText(a)]

MsgNeedSol == [b \in SolBalances |-> NeedSolText(b)]

\* The catch block's message for each value that can be thrown, worked out
\* once.
Classified == [e \in ThrownValues \cup {ToBaseUnits(Infinite(FALSE)).thrown} |-> ClassifyError(e)]

(***************************************************************************)
(* State.                                                                  *)
(***************************************************************************)
VARIABLES
    isConnected,        \* useWallet().isConnected
    smartWalletPubkey,  \* useWallet().smartWalletPubkey, NoKey for null
    formId,             \* the mounted instance of SendUSDC (counts mounts)
    recipient,          \* useState: the recipient field
    amount,             \* useState: the amount field
    txState,            \* useState: TransactionState
    flows,              \* the handleSubmit invocations started so far
    last,               \* what the step just taken did
    balances,           \* WalletInfo useState: Balances
    copied,             \* WalletInfo useState: copied
    timers,             \* the browser's timers: setInterval and setTimeout not yet cleared
    fetches,            \* the fetchBalances invocations started so far
    copies,             \* the handleCopy invocations started so far
    ledger,             \* the transfers the chain has performed
    showTip,            \* ConnectWallet useState: showTip
    isConnecting,       \* useWallet().isConnecting
    connects            \* the handleConnect invocations started so far

vars ==
    <<isConnected, smartWalletPubkey, formId, recipient, amount, txState, flows, last,
      balances, copied, timers, fetches, copies, ledger, showTip, isConnecting, connects>>

Idle == [status |-> "idle"]

Pending == [status |-> "pending"]

\* The success state carrying a signature other than the returned one.
SuccessStale(signature) == [status |-> "success", signature |-> "sig1"]

Success(signature) == [status |-> "success", signature |-> signature]

Failed(message) == [status |-> "error", error |-> message]

FlowIds == 1..Len(flows)

\* getAssociatedTokenAddress(mint, owner, true)
AssociatedTokenAddress(owner) == [mint |-> "USDC_MINT_DEVNET", owner |-> owner]

\* isValidAddress taking every non-blank string for an address.
IsValidAddressNonBlank(address) == Trim(address) # <<>>

\* isValidAddress
IsValidAddress(address) ==
    LET trimmed == Trim(address)
    IN  IF trimmed = <<>> THEN FALSE ELSE trimmed \in ValidAddresses

\* The `disabled` expression of the submit button, but for its first
\* disjunct.
FieldsDisable(recipientText, amountText) ==
    \/ Trim(recipientText) = <<>>
    \/ Trim(amountText) = <<>>
    \/ ~IsValidAddress(Trim(recipientText))

FieldsDisableTable ==
    [r \in RecipientTexts, a \in AmountTexts |-> FieldsDisable(r, a)]

\* The `disabled` expression of the submit button.
SubmitDisabled ==
    \/ txState.status = "pending"
    \/ FieldsDisableTable[recipient, amount]

\* The validations with the amount checked before the recipient.
ValidationErrorAmountFirst(pubkey, trimmedRecipient, trimmedAmount) ==
    IF pubkey = NoKey THEN MsgNotConnected
    ELSE IF trimmedAmount = <<>> THEN MsgEnterAmount
    ELSE IF IsNaN(ParseFloat(trimmedAmount)) \/ LeqZero(ParseFloat(trimmedAmount))
         THEN MsgAmountPositive
    ELSE IF ~IsValidAddress(trimmedRecipient) THEN MsgInvalidRecipient
    ELSE ""

\* The validations with the amount checked for NaN alone.
ValidationErrorNaNOnly(pubkey, trimmedRecipient, trimmedAmount) ==
    IF pubkey = NoKey THEN MsgNotConnected
    ELSE IF ~IsValidAddress(trimmedRecipient) THEN MsgInvalidRecipient
    ELSE IF trimmedAmount = <<>> THEN MsgEnterAmount
    ELSE IF IsNaN(ParseFloat(trimmedAmount)) THEN MsgAmountPositive
    ELSE ""

\* The validations of handleSubmit, in order: the error of the first that
\* fails, or "" when all pass.
ValidationError(pubkey, trimmedRecipient, trimmedAmount) ==
    IF pubkey = NoKey THEN MsgNotConnected
    ELSE IF ~IsValidAddress(trimmedRecipient) THEN MsgInvalidRecipient
    ELSE IF trimmedAmount = <<>> THEN MsgEnterAmount
    ELSE IF IsNaN(ParseFloat(trimmedAmount)) \/ LeqZero(ParseFloat(trimmedAmount))
         THEN MsgAmountPositive
    ELSE ""

\* The balance check passing a balance one base unit short.
BalanceTooLowOffByOne(senderAmount, transferAmount) == senderAmount + 1 < transferAmount

\* A balance check that also turns away a balance equal to the amount.
BalanceTooLowInclusive(senderAmount, transferAmount) == senderAmount <= transferAmount

\* senderAccount.amount < transferAmount
BalanceTooLow(senderAmount, transferAmount) == senderAmount < transferAmount

\* The rent check passing a balance one lamport short.
RentTooLowOffByOne(solBalance) == solBalance + 1 < rentExempt

\* solBalance < rentExempt
RentTooLow(solBalance) == solBalance < rentExempt

CreateAtaInstruction(f) ==
    [type |-> "createAssociatedTokenAccount", payer |-> f.pubkey,
     ata |-> AssociatedTokenAddress(f.recipient), owner |-> f.recipient]

TransferInstruction(f) ==
    [type |-> "transfer", source |-> AssociatedTokenAddress(f.pubkey),
     destination |-> AssociatedTokenAddress(f.recipient), owner |-> f.pubkey,
     amount |-> f.transferAmount]

\* The batch with the transfer ahead of the account creation.
SignArgsTransferFirst(f, needsAtaCreation) ==
    [instructions |-> <<TransferInstruction(f)>>
                          \o (IF needsAtaCreation THEN <<CreateAtaInstruction(f)>> ELSE <<>>),
     feeToken |-> "USDC"]

\* The batch built from what the fields hold as the signing call is made.
SignArgsFromFields(f, needsAtaCreation) ==
    LET units == ToBaseUnits(ParseFloat(Trim(amount)))
        g     == [f EXCEPT !.transferAmount =
                               IF units.ok THEN units.value ELSE f.transferAmount]
    IN  [instructions |-> (IF needsAtaCreation THEN <<CreateAtaInstruction(g)>> ELSE <<>>)
                              \o <<TransferInstruction(g)>>,
         feeToken |-> "USDC"]

\* The argument of signAndSendTransaction.
SignArgs(f, needsAtaCreation) ==
    [instructions |-> (IF needsAtaCreation THEN <<CreateAtaInstruction(f)>> ELSE <<>>)
                          \o <<TransferInstruction(f)>>,
     feeToken |-> "USDC"]

\* A handleSubmit invocation: the instance of the form that started it, the
\* values its closure captured, where it is suspended (pc), and a record of
\* what it has done: its external calls, the states it passed to setTxState,
\* the argument of its signing call, whether it cleared the fields.
NewFlow(pubkey, trimmedRecipient) ==
    [form |-> formId, pc |-> "done", pubkey |-> pubkey, recipient |-> trimmedRecipient,
     transferAmount |-> 0, calls |-> <<>>, sets |-> <<>>, signArgs |-> <<>>,
     clearedFields |-> FALSE]

\* A finished invocation holds nothing any longer.
Returned ==
    [form |-> 0, pc |-> "done", pubkey |-> NoKey, recipient |-> <<>>,
     transferAmount |-> 0, calls |-> <<>>, sets |-> <<>>, signArgs |-> <<>>,
     clearedFields |-> FALSE]

InFlight == { i \in FlowIds : flows[i].pc # "done" }

\* A state setter called by flow f acts on the instance that started f, and
\* does nothing once that instance is unmounted.
Alive(f) == isConnected /\ f.form = formId

\* The step just taken: the operation, the flow it ran in (its index, and
\* its record as the step left it), and the values the step took from its
\* environment (in a sequence).
Step(op, i, f, arg) == [op |-> op, id |-> i, flow |-> f, arg |-> arg]

NoStep == Step("", 0, Returned, <<>>)

\* null
Null == [null |-> TRUE]

\* The JavaScript number units / per.
Quotient(units, per) ==
    IF units = 0 THEN [units |-> 0, per |-> 1] ELSE [units |-> units, per |-> per]

\* useState<Balances>({ sol: null, usdc: null, loading: true })
InitialBalances == [sol |-> Null, usdc |-> Null, loading |-> TRUE]

\* A fetchBalances invocation: the instance of the panel that started it, the
\* wallet of its closure, where it is suspended, and the SOL amount it holds.
NewFetch(mount, wallet) == [mount |-> mount, wallet |-> wallet, pc |-> "getBalance", sol |-> Null]

FetchReturned == [mount |-> 0, wallet |-> NoKey, pc |-> "done", sol |-> Null]

FetchIds == 1..Len(fetches)

\* A handleCopy invocation awaiting navigator.clipboard.writeText.
NewCopy(mount) == [mount |-> mount, pc |-> "writeText"]

CopyReturned == [mount |-> 0, pc |-> "done"]

CopyIds == 1..Len(copies)

\* setInterval(fetchBalances, 30000) of an instance, fetchBalances closing
\* over a wallet.
Interval(mount, wallet) == [kind |-> "interval", mount |-> mount, wallet |-> wallet]

\* The setTimeout held by timeoutRef.current of an instance.
Timeout(mount) == [kind |-> "timeout", mount |-> mount, wallet |-> NoKey]

\* A state setter of the panel's instance m acts while that instance is
\* mounted; WalletInfo and SendUSDC are mounted and unmounted together.
PanelAlive(m) == isConnected /\ m = formId

\* The wallet-info panel without any activity, and an empty chain.
PanelAside ==
    /\ balances = InitialBalances
    /\ copied = FALSE
    /\ timers = {}
    /\ fetches = <<>>
    /\ copies = <<>>
    /\ ledger = <<>>
    /\ showTip = FALSE
    /\ isConnecting = FALSE
    /\ connects = <<>>

\* A step that leaves the connect button alone.
ButtonStill == UNCHANGED <<showTip, isConnecting, connects>>

\* A step of the form alone.
FormAlone ==
    /\ UNCHANGED <<balances, copied, timers, fetches, copies, ledger>>
    /\ ButtonStill

Init ==
    /\ PanelAside
    /\ isConnected = FALSE
    /\ smartWalletPubkey = NoKey
    /\ formId = 0
    /\ recipient = <<>>
    /\ amount = <<>>
    /\ txState = Idle
    /\ flows = <<>>
    /\ last = NoStep

(***************************************************************************)
(* The wallet session (SDK) and the page: SendUSDC is mounted exactly      *)
(* while isConnected, with fresh state at every mount.                     *)
(***************************************************************************)
Connect(key) ==
    /\ ~isConnected
    /\ formId < MaxMounts
    /\ isConnected' = TRUE
    /\ smartWalletPubkey' = key
    /\ formId' = formId + 1
    /\ recipient' = <<>>
    /\ amount' = <<>>
    /\ txState' = Idle
    /\ last' = NoStep
    /\ UNCHANGED flows

Disconnect ==
    /\ isConnected
    /\ isConnected' = FALSE
    /\ smartWalletPubkey' = NoKey
    /\ recipient' = <<>>
    /\ amount' = <<>>
    /\ txState' = Idle
    /\ last' = NoStep
    /\ UNCHANGED <<formId, flows>>

(***************************************************************************)
(* The form.                                                               *)
(***************************************************************************)
SetRecipient(value) ==
    /\ isConnected
    /\ recipient' = value
    /\ last' = NoStep
    /\ UNCHANGED <<isConnected, smartWalletPubkey, formId, amount, txState, flows>>

SetAmount(value) ==
    /\ isConnected
    /\ amount' = value
    /\ last' = NoStep
    /\ UNCHANGED <<isConnected, smartWalletPubkey, formId, recipient, txState, flows>>

\* What handleSubmit works out from the values it captured before it
\* touches any state.
Sanitized(pubkey, recipientText, amountText) ==
    [trimmedRecipient |-> Trim(recipientText),
     invalid |-> ValidationError(pubkey, Trim(recipientText), Trim(amountText)),
     amountNum |-> ParseFloat(Trim(amountText)),
     units |-> ToBaseUnits(ParseFloat(Trim(amountText)))]

SanitizedTable ==
    [k \in WalletKeys \cup {NoKey}, r \in RecipientTexts, a \in AmountTexts
        |-> Sanitized(k, r, a)]

\* The record of a handleSubmit invocation up to its first network call.
\* The two token-account derivations are awaited without leaving the event
\* loop's current task.
Submitted(pubkey, recipientText, amountText) ==
    LET in      == SanitizedTable[pubkey, recipientText, amountText]
        invalid == in.invalid
        units   == in.units
        f       == NewFlow(pubkey, in.trimmedRecipient)
    IN  IF invalid # ""
        THEN [f EXCEPT !.sets = <<Failed(invalid)>>]
        ELSE IF ~units.ok
        THEN [f EXCEPT !.sets = <<Pending, Failed(Classified[units.thrown])>>]
        ELSE [f EXCEPT !.pc = "senderAccount",
                       !.transferAmount = units.value,
                       !.sets = <<Pending>>,
                       !.calls = <<"getAssociatedTokenAddress(sender)",
                                   "getAssociatedTokenAddress(recipient)",
                                   "getAccount(sender)">>]

\* A handleSubmit that empties the fields when it returns at once.
HandleSubmitClears ==
    LET f == Submitted(smartWalletPubkey, recipient, amount)
    IN  /\ isConnected
        /\ Len(flows) < MaxSubmits
        /\ txState' = f.sets[Len(f.sets)]
        /\ flows' = Append(flows, IF f.pc = "done" THEN Returned ELSE f)
        /\ last' = Step("handleSubmit", Len(flows) + 1, f, <<recipient, amount>>)
        /\ recipient' = IF f.pc = "done" THEN <<>> ELSE recipient
        /\ amount' = IF f.pc = "done" THEN <<>> ELSE amount
        /\ UNCHANGED <<isConnected, smartWalletPubkey, formId>>

\* handleSubmit up to its first network call.
HandleSubmit ==
    LET f == Submitted(smartWalletPubkey, recipient, amount)
    IN  /\ isConnected
        /\ Len(flows) < MaxSubmits
        /\ txState' = f.sets[Len(f.sets)]
        /\ flows' = Append(flows, IF f.pc = "done" THEN Returned ELSE f)
        /\ last' = Step("handleSubmit", Len(flows) + 1, f, <<recipient, amount>>)
        /\ UNCHANGED <<isConnected, smartWalletPubkey, formId, recipient, amount>>

\* The form's onSubmit fired by the submit button, which the browser does
\* only while the button is enabled.
ClickSubmit ==
    /\ ~SubmitDisabled
    /\ HandleSubmit

\* A dismiss button shown in the pending panel too.
DismissShownWhilePending == txState.status # "idle"

\* TxStatus shows the dismiss button in its success panel (which needs a
\* non-empty signature) and in its error panel.
DismissShown ==
    \/ txState.status = "success" /\ txState.signature # ""
    \/ txState.status = "error"

\* A TxStatus whose success panel does not look at the signature.
TxStatusPanelAnySuccess(state) ==
    IF state.status = "idle" THEN "none" ELSE state.status

\* The panel TxStatus returns for a state: one of its three panels, or
\* "none" for null.
TxStatusPanel(state) ==
    IF state.status = "idle" THEN "none"
    ELSE IF state.status = "pending" THEN "pending"
    ELSE IF state.status = "success" /\ state.signature # "" THEN "success"
    ELSE IF state.status = "error" THEN "error"
    ELSE "none"

\* The text TxStatus renders in its error panel.
DisplayedError ==
    IF txState.error # "" THEN txState.error ELSE "An unknown error occurred"

\* A handleDismiss that empties the fields as well.
HandleDismissClears ==
    /\ isConnected
    /\ DismissShown
    /\ txState' = Idle
    /\ recipient' = <<>>
    /\ amount' = <<>>
    /\ last' = NoStep
    /\ UNCHANGED <<isConnected, smartWalletPubkey, formId, flows>>

\* handleDismiss, from the dismiss button of TxStatus: setTxState({status: "idle"}).
HandleDismiss ==
    /\ isConnected
    /\ DismissShown
    /\ txState' = Idle
    /\ last' = NoStep
    /\ UNCHANGED <<isConnected, smartWalletPubkey, formId, recipient, amount, flows>>

(***************************************************************************)
(* The continuations of handleSubmit: one action per way an awaited call   *)
(* settles.                                                                *)
(***************************************************************************)
\* Flow i, now f, returns after passing st to setTxState.
Finish(op, i, f, st, arg) ==
    /\ flows' = [flows EXCEPT ![i] = Returned]
    /\ txState' = IF Alive(f) THEN st ELSE txState
    /\ last' = Step(op, i, [f EXCEPT !.pc = "done", !.sets = Append(f.sets, st)], arg)

\* Flow i, now f, makes its next external call and is suspended at pc.
Continue(op, i, f, pc, call, arg) ==
    /\ flows' = [flows EXCEPT ![i] = [f EXCEPT !.pc = pc, !.calls = Append(f.calls, call)]]
    /\ last' = Step(op, i, flows'[i], arg)
    /\ UNCHANGED txState

\* The JavaScript string of a sequence of characters.
RECURSIVE Text(_)
Text(chars) == IF chars = <<>> THEN "" ELSE chars[1] \o Text(Tail(chars))

\* A catch block that shows the message of the caught value as it came.
CatchRaw(op, i, thrown) ==
    Finish(op, i, flows[i], Failed(Text(thrown.message)), <<thrown>>)

\* A catch block that repeats the rejected call once before giving up.
CatchRetry(op, i, thrown) ==
    IF Len(flows[i].calls) < 6
    THEN Continue(op, i, flows[i], flows[i].pc,
                  flows[i].calls[Len(flows[i].calls)], <<thrown>>)
    ELSE Finish(op, i, flows[i], Failed(Classified[thrown]), <<thrown>>)

\* The outer catch block: the caught value is classified and shown.
Catch(op, i, thrown) ==
    Finish(op, i, flows[i], Failed(Classified[thrown]), <<thrown>>)

\* getAccount(connection, senderATA) resolves with the account.
SenderAccountResolved(i, senderAmount) ==
    /\ flows[i].pc = "senderAccount"
    /\ IF BalanceTooLow(senderAmount, flows[i].transferAmount)
       THEN Finish("senderAccountResolved", i, flows[i],
                   Failed(MsgInsufficientUsdc[senderAmount]), <<senderAmount>>)
       ELSE Continue("senderAccountResolved", i, flows[i],
                     "recipientAccount", "getAccount(recipient)", <<senderAmount>>)
    /\ UNCHANGED <<isConnected, smartWalletPubkey, formId, recipient, amount>>

\* The inner catch returning without a call of setTxState.
SenderAccountRejectedSilent(i) ==
    /\ flows[i].pc = "senderAccount"
    /\ flows' = [flows EXCEPT ![i] = Returned]
    /\ last' = Step("senderAccountRejected", i, [flows[i] EXCEPT !.pc = "done"], <<>>)
    /\ UNCHANGED <<isConnected, smartWalletPubkey, formId, recipient, amount, txState>>

\* What getAccount throws when the account does not exist.
TokenAccountNotFoundError == ErrorValue("TokenAccountNotFoundError", <<>>)

\* What getAccount can throw: the account is missing, it is not a token
\* account, or the RPC request failed.
LookupErrors ==
    { TokenAccountNotFoundError,
      ErrorValue("TokenInvalidAccountOwnerError", <<>>),
      ErrorValue("Error", <<"f", "a", "i", "l", "e", "d", " ", "t", "o", " ", "f", "e", "t", "c", "h">>) }

\* getAccount(connection, senderATA) throws: the inner catch binds nothing
\* and takes every thrown value.
SenderAccountThrew(i, thrown) ==
    /\ flows[i].pc = "senderAccount"
    /\ Finish("senderAccountRejected", i, flows[i], Failed(MsgNoUsdc), <<thrown>>)
    /\ UNCHANGED <<isConnected, smartWalletPubkey, formId, recipient, amount>>

\* getAccount(connection, senderATA) rejects, the reason left aside.
SenderAccountRejected(i) == SenderAccountThrew(i, TokenAccountNotFoundError)

\* The SOL balance queried although the recipient's account exists.
RecipientAccountResolvedChecksSol(i) ==
    /\ flows[i].pc = "recipientAccount"
    /\ Continue("recipientAccountResolved", i, flows[i], "solBalance", "getBalance", <<>>)
    /\ UNCHANGED <<isConnected, smartWalletPubkey, formId, recipient, amount>>

\* getAccount(connection, recipientATA) resolves: the account exists.
RecipientAccountResolved(i) ==
    /\ flows[i].pc = "recipientAccount"
    /\ Continue("recipientAccountResolved", i,
                [flows[i] EXCEPT !.signArgs = <<SignArgs(flows[i], FALSE)>>],
                "sign", "signAndSendTransaction", <<>>)
    /\ UNCHANGED <<isConnected, smartWalletPubkey, formId, recipient, amount>>

\* getAccount(connection, recipientATA) throws: the catch binds nothing and
\* sets needsAtaCreation = true for every thrown value.
RecipientAccountThrew(i, thrown) ==
    /\ flows[i].pc = "recipientAccount"
    /\ Continue("recipientAccountRejected", i, flows[i], "solBalance", "getBalance",
                <<thrown>>)
    /\ UNCHANGED <<isConnected, smartWalletPubkey, formId, recipient, amount>>

\* getAccount(connection, recipientATA) rejects, the reason left aside.
RecipientAccountRejected(i) == RecipientAccountThrew(i, TokenAccountNotFoundError)

\* connection.getBalance(smartWalletPubkey) resolves.
GetBalanceResolved(i, solBalance) ==
    /\ flows[i].pc = "solBalance"
    /\ IF RentTooLow(solBalance)
       THEN Finish("getBalanceResolved", i, flows[i],
                   Failed(MsgNeedSol[solBalance]), <<solBalance>>)
       ELSE Continue("getBalanceResolved", i,
                     [flows[i] EXCEPT !.signArgs = <<SignArgs(flows[i], TRUE)>>],
                     "sign", "signAndSendTransaction", <<solBalance>>)
    /\ UNCHANGED <<isConnected, smartWalletPubkey, formId, recipient, amount>>

\* connection.getBalance(smartWalletPubkey) rejects.
GetBalanceRejected(i, thrown) ==
    /\ flows[i].pc = "solBalance"
    /\ Catch("getBalanceRejected", i, thrown)
    /\ UNCHANGED <<isConnected, smartWalletPubkey, formId, recipient, amount>>

\* signAndSendTransaction resolves with a signature: success, and the form
\* is cleared.
SignResolved(i, signature) ==
    /\ flows[i].pc = "sign"
    /\ Finish("signResolved", i, [flows[i] EXCEPT !.clearedFields = TRUE],
              Success(signature), <<signature>>)
    /\ recipient' = IF Alive(flows[i]) THEN <<>> ELSE recipient
    /\ amount' = IF Alive(flows[i]) THEN <<>> ELSE amount
    /\ UNCHANGED <<isConnected, smartWalletPubkey, formId>>

\* A catch block that empties the fields as the success path does.
SignRejectedClears(i, thrown) ==
    /\ flows[i].pc = "sign"
    /\ Catch("signRejected", i, thrown)
    /\ recipient' = IF Alive(flows[i]) THEN <<>> ELSE recipient
    /\ amount' = IF Alive(flows[i]) THEN <<>> ELSE amount
    /\ UNCHANGED <<isConnected, smartWalletPubkey, formId>>

\* signAndSendTransaction rejects.
SignRejected(i, thrown) ==
    /\ flows[i].pc = "sign"
    /\ Catch("signRejected", i, thrown)
    /\ UNCHANGED <<isConnected, smartWalletPubkey, formId, recipient, amount>>

\* The network performs the batch flow i passed to signAndSendTransaction;
\* the call reports it by resolving, or rejects all the same.
Broadcast(i, reported) ==
    /\ flows[i].pc = "sign"
    /\ ledger' = Append(ledger, [instructions |-> flows[i].signArgs[1].instructions,
                                 reported |-> reported])

(***************************************************************************)
(* The wallet-info panel (WalletInfo): the balance poller and the copy     *)
(* button.  The page mounts it and the form together.                      *)
(***************************************************************************)
PanelWallets == { <<"W">>, <<"V">> }

\* getBalance results, in lamports, and token account amounts, in base units.
PanelLamports == { 0, 1000000000 }

PanelTokenAmounts == { 1000000 }

\* A fetchBalances that clears the numbers as it starts.
FetchBalancesClears(mount, wallet, bal) ==
    IF wallet = NoKey
    THEN /\ balances' = bal
         /\ fetches' = fetches
    ELSE /\ balances' = [sol |-> Null, usdc |-> Null, loading |-> TRUE]
         /\ fetches' = Append(fetches, NewFetch(mount, wallet))

\* fetchBalances, called for the instance `mount` with the wallet of its
\* closure, up to its first await; bal is the snapshot it finds.
FetchBalances(mount, wallet, bal) ==
    IF wallet = NoKey
    THEN /\ balances' = bal
         /\ fetches' = fetches
    ELSE /\ balances' = [bal EXCEPT !.loading = TRUE]
         /\ fetches' = Append(fetches, NewFetch(mount, wallet))

\* WalletInfo mounts: fresh state, and the effect calls fetchBalances and
\* sets the interval.
MountWalletInfo(key) ==
    /\ Len(fetches) < MaxFetches
    /\ copied' = FALSE
    /\ FetchBalances(formId + 1, key, InitialBalances)
    /\ timers' = timers \cup {Interval(formId + 1, key)}
    /\ UNCHANGED copies

\* An unmount whose cleanups clear the interval alone.
UnmountWalletInfoKeepsTimeout ==
    /\ timers' = { t \in timers : t.mount # formId \/ t.kind = "timeout" }
    /\ balances' = InitialBalances
    /\ copied' = FALSE
    /\ UNCHANGED <<fetches, copies>>

\* WalletInfo unmounts: the cleanups clear the interval, and the timeout
\* that timeoutRef holds.
UnmountWalletInfo ==
    /\ timers' = { t \in timers : t.mount # formId }
    /\ balances' = InitialBalances
    /\ copied' = FALSE
    /\ UNCHANGED <<fetches, copies>>

\* The page on a new wallet session, and at its end.
PageConnect(key) == Connect(key) /\ MountWalletInfo(key) /\ UNCHANGED ledger

PageDisconnect == Disconnect /\ UnmountWalletInfo /\ UNCHANGED ledger

\* A wallet change whose cleanup leaves the old interval running.
WalletChangedKeepsInterval(key) ==
    /\ isConnected
    /\ key # smartWalletPubkey
    /\ Len(fetches) < MaxFetches
    /\ smartWalletPubkey' = key
    /\ timers' = timers \cup {Interval(formId, key)}
    /\ FetchBalances(formId, key, balances)
    /\ last' = Step("walletChanged", Len(fetches'), NewFetch(formId, key), <<key>>)
    /\ UNCHANGED <<isConnected, formId, recipient, amount, txState, flows, copied, copies,
                   ledger>>

\* The SDK reports another wallet while the session lasts: fetchBalances
\* changes, the effect's cleanup clears the interval and the effect runs
\* again.
WalletChanged(key) ==
    /\ isConnected
    /\ key # smartWalletPubkey
    /\ Len(fetches) < MaxFetches
    /\ smartWalletPubkey' = key
    /\ timers' = { t \in timers : ~(t.kind = "interval" /\ t.mount = formId) }
                     \cup {Interval(formId, key)}
    /\ FetchBalances(formId, key, balances)
    /\ last' = Step("walletChanged", Len(fetches'), NewFetch(formId, key), <<key>>)
    /\ UNCHANGED <<isConnected, formId, recipient, amount, txState, flows, copied, copies,
                   ledger>>

\* The interval t fires.
Tick(t) ==
    /\ t \in timers
    /\ t.kind = "interval"
    /\ Len(fetches) < MaxFetches
    /\ FetchBalances(t.mount, t.wallet, balances)
    /\ last' = Step("tick", Len(fetches'), NewFetch(t.mount, t.wallet), <<t>>)
    /\ UNCHANGED <<isConnected, smartWalletPubkey, formId, recipient, amount, txState, flows,
                   copied, timers, copies, ledger>>

\* A click on the Refresh button, disabled while balances.loading.
Refresh ==
    /\ isConnected
    /\ smartWalletPubkey # NoKey
    /\ ~balances.loading
    /\ Len(fetches) < MaxFetches
    /\ FetchBalances(formId, smartWalletPubkey, balances)
    /\ last' = Step("refresh", Len(fetches'), NewFetch(formId, smartWalletPubkey), <<>>)
    /\ UNCHANGED <<isConnected, smartWalletPubkey, formId, recipient, amount, txState, flows,
                   copied, timers, copies, ledger>>

\* Fetch j returns after passing the snapshot to setBalances (the step keeps
\* the snapshot, the one it found, and what the call returned).
FinishFetch(op, j, snapshot, arg) ==
    /\ fetches' = [fetches EXCEPT ![j] = FetchReturned]
    /\ balances' = IF PanelAlive(fetches[j].mount) THEN snapshot ELSE balances
    /\ last' = Step(op, j, [fetches[j] EXCEPT !.pc = "done"], <<snapshot, balances>> \o arg)
    /\ UNCHANGED <<isConnected, smartWalletPubkey, formId, recipient, amount, txState, flows,
                   copied, timers, copies, ledger>>

\* A fetch that stores its result only if no later fetch was started.
FetchTokenResolvedLatestOnly(j, tokenAmount) ==
    /\ fetches[j].pc = "getAccount"
    /\ FinishFetch("fetchTokenResolved", j,
                   IF j = Len(fetches)
                   THEN [sol |-> fetches[j].sol, usdc |-> Quotient(tokenAmount, Pow10(USDC_DECIMALS)),
                         loading |-> FALSE]
                   ELSE balances,
                   <<tokenAmount>>)

\* connection.getBalance(walletPubkey) resolves.
FetchSolResolved(j, lamports) ==
    /\ fetches[j].pc = "getBalance"
    /\ fetches' = [fetches EXCEPT ![j] = [@ EXCEPT !.pc = "getAccount",
                                                   !.sol = Quotient(lamports, LAMPORTS_PER_SOL)]]
    /\ last' = Step("fetchSolResolved", j, fetches'[j], <<lamports>>)
    /\ UNCHANGED <<isConnected, smartWalletPubkey, formId, recipient, amount, txState, flows,
                   balances, copied, timers, copies, ledger>>

\* connection.getBalance(walletPubkey) rejects: the outer catch.
FetchSolRejected(j) ==
    /\ fetches[j].pc = "getBalance"
    /\ FinishFetch("fetchSolRejected", j,
                   [sol |-> Null, usdc |-> Null, loading |-> FALSE], <<>>)

\* getAccount(connection, ata) resolves.
FetchTokenResolved(j, tokenAmount) ==
    /\ fetches[j].pc = "getAccount"
    /\ FinishFetch("fetchTokenResolved", j,
                   [sol |-> fetches[j].sol, usdc |-> Quotient(tokenAmount, Pow10(USDC_DECIMALS)),
                    loading |-> FALSE],
                   <<tokenAmount>>)

\* getAccount(connection, ata) rejects, whatever the reason: the inner catch
\* sets usdcAmount = 0.
FetchTokenRejected(j) ==
    /\ fetches[j].pc = "getAccount"
    /\ FinishFetch("fetchTokenRejected", j,
                   [sol |-> fetches[j].sol, usdc |-> Quotient(0, 1), loading |-> FALSE], <<>>)

\* handleCopy up to its await; the button is rendered only with a wallet.
HandleCopy ==
    /\ isConnected
    /\ smartWalletPubkey # NoKey
    /\ Len(copies) < MaxCopies
    /\ copies' = Append(copies, NewCopy(formId))
    /\ last' = NoStep
    /\ UNCHANGED <<isConnected, smartWalletPubkey, formId, recipient, amount, txState, flows,
                   balances, copied, timers, fetches, ledger>>

\* writeText resolves: copied is set, the timeout that timeoutRef holds is
\* cleared and a new one is set.
CopyResolved(c) ==
    /\ copies[c].pc = "writeText"
    /\ copies' = [copies EXCEPT ![c] = CopyReturned]
    /\ copied' = IF PanelAlive(copies[c].mount) THEN TRUE ELSE copied
    /\ timers' = { t \in timers : ~(t.kind = "timeout" /\ t.mount = copies[c].mount) }
                     \cup {Timeout(copies[c].mount)}
    /\ last' = Step("copyResolved", c, FetchReturned, <<copies[c].mount>>)
    /\ UNCHANGED <<isConnected, smartWalletPubkey, formId, recipient, amount, txState, flows,
                   balances, fetches, ledger>>

\* writeText rejects: the catch logs in development only.
CopyRejected(c) ==
    /\ copies[c].pc = "writeText"
    /\ copies' = [copies EXCEPT ![c] = CopyReturned]
    /\ last' = NoStep
    /\ UNCHANGED <<isConnected, smartWalletPubkey, formId, recipient, amount, txState, flows,
                   balances, copied, timers, fetches, ledger>>

\* The timeout t fires after 2 seconds.
TimeoutFired(t) ==
    /\ t \in timers
    /\ t.kind = "timeout"
    /\ copied' = IF PanelAlive(t.mount) THEN FALSE ELSE copied
    /\ timers' = timers \ {t}
    /\ last' = NoStep
    /\ UNCHANGED <<isConnected, smartWalletPubkey, formId, recipient, amount, txState, flows,
                   balances, fetches, copies, ledger>>

\* The page as the wallet-info panel sees it.
NextPage ==
    \/ \E key \in {<<"W">>, NoKey} : PageConnect(key) /\ ButtonStill
    \/ PageDisconnect /\ ButtonStill
    \/ \E key \in PanelWallets : WalletChanged(key) /\ ButtonStill
    \/ \E t \in timers : Tick(t) /\ ButtonStill
    \/ Refresh /\ ButtonStill
    \/ \E j \in FetchIds, l \in PanelLamports : FetchSolResolved(j, l) /\ ButtonStill
    \/ \E j \in FetchIds : FetchSolRejected(j) /\ ButtonStill
    \/ \E j \in FetchIds, a \in PanelTokenAmounts : FetchTokenResolved(j, a) /\ ButtonStill
    \/ \E j \in FetchIds : FetchTokenRejected(j) /\ ButtonStill
    \/ HandleCopy /\ ButtonStill
    \/ \E c \in CopyIds : CopyResolved(c) /\ ButtonStill
    \/ \E c \in CopyIds : CopyRejected(c) /\ ButtonStill
    \/ \E t \in timers : TimeoutFired(t) /\ ButtonStill

SpecPage == Init /\ [][NextPage]_vars

\* What the user and the wallet SDK do besides submitting.
Environment ==
    \/ \E key \in WalletKeys \cup {NoKey} : Connect(key) /\ FormAlone
    \/ Disconnect /\ FormAlone
    \/ \E value \in RecipientInputs : SetRecipient(value) /\ FormAlone
    \/ \E value \in AmountInputs : SetAmount(value) /\ FormAlone
    \/ HandleDismiss /\ FormAlone

\* The form as the user drives it: submits come from the submit button.
NextUI ==
    \/ Environment
    \/ ClickSubmit /\ FormAlone
    \/ \E i \in FlowIds, a \in SenderAmounts : SenderAccountResolved(i, a) /\ FormAlone
    \/ \E i \in FlowIds : SenderAccountRejected(i) /\ FormAlone
    \/ \E i \in FlowIds : RecipientAccountResolved(i) /\ FormAlone
    \/ \E i \in FlowIds : RecipientAccountRejected(i) /\ FormAlone
    \/ \E i \in FlowIds, b \in SolBalances : GetBalanceResolved(i, b) /\ FormAlone
    \/ \E i \in FlowIds, e \in ThrownFew : GetBalanceRejected(i, e) /\ FormAlone
    \/ \E i \in FlowIds, sg \in Signatures : SignResolved(i, sg) /\ FormAlone
    \/ \E i \in FlowIds, e \in ThrownFew : SignRejected(i, e) /\ FormAlone

SpecUI == Init /\ [][NextUI]_vars

\* The handler under every submit event of a mounted form, whatever its
\* fields hold and whatever the calls throw.
InitHandler ==
    /\ PanelAside
    /\ isConnected = TRUE
    /\ smartWalletPubkey \in WalletKeys \cup {NoKey}
    /\ formId = 1
    /\ recipient \in RecipientTexts
    /\ amount \in AmountTexts
    /\ txState = Idle
    /\ flows = <<>>
    /\ last = NoStep

\* An awaited call of flow i settles.
FlowStep(i) ==
    \/ \E a \in SenderAmounts : SenderAccountResolved(i, a)
    \/ SenderAccountRejected(i)
    \/ RecipientAccountResolved(i)
    \/ RecipientAccountRejected(i)
    \/ \E b \in SolBalances : GetBalanceResolved(i, b)
    \/ \E e \in ThrownValues : GetBalanceRejected(i, e)
    \/ \E sg \in Signatures : SignResolved(i, sg)
    \/ \E e \in ThrownValues : SignRejected(i, e)

Next ==
    \/ Disconnect /\ FormAlone
    \/ HandleDismiss /\ FormAlone
    \/ HandleSubmit /\ FormAlone
    \/ \E i \in FlowIds, a \in SenderAmounts : SenderAccountResolved(i, a) /\ FormAlone
    \/ \E i \in FlowIds : SenderAccountRejected(i) /\ FormAlone
    \/ \E i \in FlowIds : RecipientAccountResolved(i) /\ FormAlone
    \/ \E i \in FlowIds : RecipientAccountRejected(i) /\ FormAlone
    \/ \E i \in FlowIds, b \in SolBalances : GetBalanceResolved(i, b) /\ FormAlone
    \/ \E i \in FlowIds, e \in ThrownValues : GetBalanceRejected(i, e) /\ FormAlone
    \/ \E i \in FlowIds, sg \in Signatures : SignResolved(i, sg) /\ FormAlone
    \/ \E i \in FlowIds, e \in ThrownValues : SignRejected(i, e) /\ FormAlone

Spec == InitHandler /\ [][Next]_vars

\* The handler under the submits that take each of its paths, every awaited
\* call settling in the end.
InitLive ==
    /\ PanelAside
    /\ isConnected = TRUE
    /\ smartWalletPubkey \in WalletKeys \cup {NoKey}
    /\ formId = 1
    /\ recipient \in RecipientInputs
    /\ amount \in AmountInputs \cup { <<>>, InfinityLiteral }
    /\ txState = Idle
    /\ flows = <<>>
    /\ last = NoStep

NextLive ==
    \/ Disconnect /\ FormAlone
    \/ HandleDismiss /\ FormAlone
    \/ HandleSubmit /\ FormAlone
    \/ \E i \in FlowIds, a \in SenderAmounts : SenderAccountResolved(i, a) /\ FormAlone
    \/ \E i \in FlowIds : SenderAccountRejected(i) /\ FormAlone
    \/ \E i \in FlowIds : RecipientAccountResolved(i) /\ FormAlone
    \/ \E i \in FlowIds : RecipientAccountRejected(i) /\ FormAlone
    \/ \E i \in FlowIds, b \in SolBalances : GetBalanceResolved(i, b) /\ FormAlone
    \/ \E i \in FlowIds, e \in ThrownFew : GetBalanceRejected(i, e) /\ FormAlone
    \/ \E i \in FlowIds, sg \in Signatures : SignResolved(i, sg) /\ FormAlone
    \/ \E i \in FlowIds, e \in ThrownFew : SignRejected(i, e) /\ FormAlone

SpecLive ==
    InitLive /\ [][NextLive]_vars
        /\ \A i \in 1..MaxSubmits : WF_vars(i \in FlowIds /\ FlowStep(i) /\ FormAlone)

(***************************************************************************)
(* The connect button (ConnectWallet), mounted once in the page's header.  *)
(***************************************************************************)
\* A handleConnect invocation awaiting connect().
NewConnect == [pc |-> "connect"]

ConnectReturned == [pc |-> "done"]

ConnectIds == 1..Len(connects)

\* The button ConnectWallet renders.
ConnectWalletButton ==
    IF isConnected /\ smartWalletPubkey # NoKey THEN "disconnect"
    ELSE IF isConnecting \/ showTip THEN "connecting"
    ELSE "connect"

\* A click on the connect button: handleConnect up to its await.
HandleConnect ==
    /\ ConnectWalletButton = "connect"
    /\ Len(connects) < MaxConnects
    /\ showTip' = TRUE
    /\ connects' = Append(connects, NewConnect)
    /\ last' = Step("handleConnect", Len(connects) + 1, Returned, <<>>)
    /\ UNCHANGED <<isConnected, smartWalletPubkey, formId, recipient, amount, txState, flows,
                   balances, copied, timers, fetches, copies, ledger, isConnecting>>

\* The SDK raises or lowers its isConnecting flag.
SetConnecting(b) ==
    /\ isConnecting # b
    /\ isConnecting' = b
    /\ last' = NoStep
    /\ UNCHANGED <<isConnected, smartWalletPubkey, formId, recipient, amount, txState, flows,
                   balances, copied, timers, fetches, copies, ledger, showTip, connects>>

\* The session connect() resolves with: a new one, another wallet for the
\* one there is, or the one there is.
SessionOf(key) ==
    IF ~isConnected THEN PageConnect(key)
    ELSE IF key # smartWalletPubkey THEN WalletChanged(key)
    ELSE /\ last' = NoStep
         /\ UNCHANGED <<isConnected, smartWalletPubkey, formId, recipient, amount, txState,
                        flows, balances, copied, timers, fetches, copies, ledger>>

\* A catch block of handleConnect that leaves the tip shown.
ConnectRejectedKeepsTip(c) ==
    /\ connects[c].pc = "connect"
    /\ connects' = [connects EXCEPT ![c] = ConnectReturned]
    /\ last' = Step("connectRejected", c, Returned, <<>>)
    /\ UNCHANGED <<isConnected, smartWalletPubkey, formId, recipient, amount, txState, flows,
                   balances, copied, timers, fetches, copies, ledger, isConnecting, showTip>>

\* connect() resolves: setShowTip(false).
ConnectResolved(c, key) ==
    /\ connects[c].pc = "connect"
    /\ connects' = [connects EXCEPT ![c] = ConnectReturned]
    /\ showTip' = FALSE
    /\ SessionOf(key)
    /\ UNCHANGED isConnecting

\* connect() rejects: the catch block calls setShowTip(false).
ConnectRejected(c) ==
    /\ connects[c].pc = "connect"
    /\ connects' = [connects EXCEPT ![c] = ConnectReturned]
    /\ showTip' = FALSE
    /\ last' = Step("connectRejected", c, Returned, <<>>)
    /\ UNCHANGED <<isConnected, smartWalletPubkey, formId, recipient, amount, txState, flows,
                   balances, copied, timers, fetches, copies, ledger, isConnecting>>

\* The connect button, the SDK behind it, and the page it connects.
NextConnect ==
    \/ HandleConnect
    \/ \E b \in BOOLEAN : SetConnecting(b)
    \/ \E c \in ConnectIds, key \in {<<"W">>, NoKey} : ConnectResolved(c, key)
    \/ \E c \in ConnectIds : ConnectRejected(c)
    \/ PageDisconnect /\ ButtonStill

SpecConnect == Init /\ [][NextConnect]_vars

(***************************************************************************)
(* truncateAddress (lib/constants), which ConnectWallet applies to the     *)
(* wallet's address with the default chars = 4 and WalletInfo with         *)
(* chars = 8.                                                              *)
(***************************************************************************)
\* The addresses tried: one of each length, every character at its own
\* position, so that a result tells which characters it took.
Addresses ==
    LET base58 == <<"1", "2", "3", "4", "5", "6", "7", "8", "9", "A", "B", "C",
                    "D", "E", "F", "G", "H", "J", "K", "L", "M", "N", "P", "Q">>
    IN  { SubSeq(base58, 1, n) : n \in 0..MaxAddressLen }

\* String.prototype.slice(start, end): a negative index counts from the
\* end, both are clamped to the string, and -0 is 0.
Slice(s, start, end) ==
    LET len  == Len(s)
        from == IF start < 0 THEN (IF len + start < 0 THEN 0 ELSE len + start)
                ELSE (IF start > len THEN len ELSE start)
        to   == IF end < 0 THEN (IF len + end < 0 THEN 0 ELSE len + end)
                ELSE (IF end > len THEN len ELSE end)
    IN  IF from >= to THEN <<>> ELSE SubSeq(s, from + 1, to)

\* truncateAddress(address, chars); slice(-chars) has no end argument, which
\* is the length of the string.
TruncateAddress(address, chars) ==
    IF Len(address) <= chars * 2 + 3 THEN address
    ELSE Slice(address, 0, chars) \o <<".", ".", ".">>
             \o Slice(address, -chars, Len(address))

\* One call of truncateAddress.
TruncateAddressCall(address, chars) ==
    /\ last' = Step("truncateAddress", 0, Returned,
                    <<address, chars, TruncateAddress(address, chars)>>)
    /\ UNCHANGED <<isConnected, smartWalletPubkey, formId, recipient, amount, txState, flows,
                   balances, copied, timers, fetches, copies, ledger>>
    /\ ButtonStill

NextTruncate ==
    \E address \in Addresses, chars \in 0..MaxChars : TruncateAddressCall(address, chars)

SpecTruncate == Init /\ [][NextTruncate]_vars

\* The panel untouched.
PanelStill ==
    /\ UNCHANGED <<balances, copied, timers, fetches, copies>>
    /\ ButtonStill

\* The form connected, a recipient typed in.
InitLedger ==
    /\ PanelAside
    /\ isConnected = TRUE
    /\ smartWalletPubkey = <<"W">>
    /\ formId = 1
    /\ recipient = <<" ", "A", " ">>
    /\ amount \in AmountInputs
    /\ txState = Idle
    /\ flows = <<>>
    /\ last = NoStep

\* The form and the network behind its calls: an account lookup fails for
\* one reason or another; a batch signed is performed when the signing call
\* resolves, and may have been performed when the call rejects.
NextLedger ==
    \/ \E value \in AmountInputs : SetAmount(value) /\ FormAlone
    \/ HandleDismiss /\ FormAlone
    \/ ClickSubmit /\ FormAlone
    \/ \E i \in FlowIds, a \in SenderAmounts : SenderAccountResolved(i, a) /\ FormAlone
    \/ \E i \in FlowIds, e \in LookupErrors : SenderAccountThrew(i, e) /\ FormAlone
    \/ \E i \in FlowIds : RecipientAccountResolved(i) /\ FormAlone
    \/ \E i \in FlowIds, e \in LookupErrors : RecipientAccountThrew(i, e) /\ FormAlone
    \/ \E i \in FlowIds, b \in SolBalances : GetBalanceResolved(i, b) /\ FormAlone
    \/ \E i \in FlowIds, sg \in Signatures \cup {""} :
          SignResolved(i, sg) /\ Broadcast(i, "resolved") /\ PanelStill
    \/ \E i \in FlowIds, e \in ThrownFew :
          SignRejected(i, e) /\ Broadcast(i, "rejected") /\ PanelStill
    \/ \E i \in FlowIds, e \in ThrownFew : SignRejected(i, e) /\ FormAlone

SpecLedger == InitLedger /\ [][NextLedger]_vars

\* The page as a connection with a wallet leaves it (the form and the panel
\* mounted, the first fetch in flight, the interval set), the fields filled
\* in.
InitUnmount ==
    /\ isConnected = TRUE
    /\ smartWalletPubkey = <<"W">>
    /\ formId = 1
    /\ recipient = <<" ", "A", " ">>
    /\ amount = <<"1">>
    /\ txState = Idle
    /\ flows = <<>>
    /\ last = NoStep
    /\ balances = InitialBalances
    /\ copied = FALSE
    /\ timers = {Interval(1, <<"W">>)}
    /\ fetches = <<NewFetch(1, <<"W">>)>>
    /\ copies = <<>>
    /\ ledger = <<>>
    /\ showTip = FALSE
    /\ isConnecting = FALSE
    /\ connects = <<>>

\* A submission that reaches the signing call, the copy button and the
\* poller, under disconnects and reconnects of the page.
NextUnmount ==
    \/ PageConnect(<<"W">>) /\ ButtonStill
    \/ PageDisconnect /\ ButtonStill
    \/ ClickSubmit /\ FormAlone
    \/ HandleDismiss /\ FormAlone
    \/ \E i \in FlowIds : SenderAccountResolved(i, 1000000) /\ FormAlone
    \/ \E i \in FlowIds : RecipientAccountResolved(i) /\ FormAlone
    \/ \E i \in FlowIds : SignResolved(i, "sig1") /\ FormAlone
    \/ \E i \in FlowIds, e \in ThrownFew : SignRejected(i, e) /\ FormAlone
    \/ \E t \in timers : Tick(t) /\ ButtonStill
    \/ \E j \in FetchIds : FetchSolRejected(j) /\ ButtonStill
    \/ HandleCopy /\ ButtonStill
    \/ \E c \in CopyIds : CopyResolved(c) /\ ButtonStill
    \/ \E c \in CopyIds : CopyRejected(c) /\ ButtonStill
    \/ \E t \in timers : TimeoutFired(t) /\ ButtonStill

SpecUnmount == InitUnmount /\ [][NextUnmount]_vars

(***************************************************************************)
(* Properties.  Each is stated of the step just taken (last) and of the    *)
(* state it left.                                                          *)
(***************************************************************************)
\* The state a flow last passed to setTxState.
LastSet(f) == f.sets[Len(f.sets)]

\* Flow f has made the external call c.
Called(f, c) == \E k \in 1..Len(f.calls) : f.calls[k] = c

NetworkCalls ==
    {"getAccount(sender)", "getAccount(recipient)", "getBalance", "signAndSendTransaction"}

\* The setters of the step just taken acted on the mounted form.
StepAlive == isConnected /\ last.flow.form = formId

\* The step just taken was a submit; what it found in the fields.
Submit == last.op = "handleSubmit"

SubmitRecipient == Trim(last.arg[1])

SubmitAmount == Trim(last.arg[2])

SubmitAmountNum == SanitizedTable[last.flow.pubkey, last.arg[1], last.arg[2]].amountNum

NoSigner == last.flow.pubkey = NoKey

BadRecipient == SubmitRecipient \notin ValidAddresses

GreaterThanZero(x) == x.kind \in {"fin", "inf"} /\ ~x.neg /\ (x.kind = "fin" => x.mant > 0)

FinitePositive(x) == x.kind = "fin" /\ ~x.neg /\ x.mant > 0

BadAmount == SubmitAmount = <<>> \/ ~GreaterThanZero(SubmitAmountNum)

\* C1: a submit that fails one or more of the three validations reports the
\* error of the first that fails, in the order signer, recipient, amount;
\* the status is never set to pending and no external call is made.
C1_ValidationOrder ==
    Submit /\ (NoSigner \/ BadRecipient \/ BadAmount) =>
        LET expected == IF NoSigner THEN MsgNotConnected
                        ELSE IF BadRecipient THEN MsgInvalidRecipient
                        ELSE IF SubmitAmount = <<>> THEN MsgEnterAmount
                        ELSE MsgAmountPositive
        IN  /\ last.flow.sets = <<Failed(expected)>>
            /\ txState = Failed(expected)
            /\ last.flow.calls = <<>>
            /\ flows[last.id].pc = "done"

\* A submit with a signer where both the recipient and the amount are bad.
C1_Witness ==
    /\ Submit /\ ~NoSigner /\ BadRecipient /\ BadAmount
    /\ txState = Failed(MsgInvalidRecipient)

\* C2: a submit whose amount does not parse to a finite number greater than
\* 0 ends in an error status without any network call.
C2_BadAmountNoNetwork ==
    Submit /\ ~FinitePositive(SubmitAmountNum) =>
        /\ txState.status = "error"
        /\ LastSet(last.flow).status = "error"
        /\ flows[last.id].pc = "done"
        /\ \A c \in NetworkCalls : ~Called(last.flow, c)

\* A submit of an infinite amount that passed the validations: the
\* conversion threw after the status was set to pending.
C2_Witness ==
    /\ Submit /\ ~NoSigner /\ ~BadRecipient
    /\ SubmitAmountNum.kind = "inf" /\ ~SubmitAmountNum.neg
    /\ last.flow.sets = <<Pending, Failed(MsgGeneric)>>
    /\ txState = Failed(MsgGeneric)

\* C3, as claimed: a submit whose recipient fails the address validation
\* ends in status error with the invalid-recipient message; no instruction
\* is built and nothing is signed.
C3_AsClaimed ==
    Submit /\ BadRecipient =>
        /\ txState = Failed(MsgInvalidRecipient)
        /\ last.flow.signArgs = <<>>
        /\ ~Called(last.flow, "signAndSendTransaction")

\* C3, amended: such a submit ends in status error, with the
\* invalid-recipient message when a signer is present and with the
\* not-connected message when none is; no instruction is built, nothing is
\* signed, and the flow has returned.
C3_InvalidRecipientRejected ==
    Submit /\ BadRecipient =>
        /\ txState = Failed(IF NoSigner THEN MsgNotConnected ELSE MsgInvalidRecipient)
        /\ last.flow.signArgs = <<>>
        /\ ~Called(last.flow, "signAndSendTransaction")
        /\ flows[last.id].pc = "done"

\* A submit with a signer and a recipient of white space alone.
C3_Witness ==
    /\ Submit /\ ~NoSigner
    /\ last.arg[1] # <<>> /\ SubmitRecipient = <<>>
    /\ txState = Failed(MsgInvalidRecipient)

\* The decimal text of the balances the queries can return.
UsdcText == (0 :> "0") @@ (499999 :> "0.499999") @@ (500000 :> "0.5") @@ (1000000 :> "1")

SolText == (0 :> "0.0000") @@ (2039279 :> "0.0020") @@ (2039280 :> "0.0020")

\* C4: when the sender's queried token balance is below the transfer amount
\* in base units, the flow ends in status error with the insufficient-
\* balance message, which contains that balance, and never signs.
C4_InsufficientBalance ==
    last.op = "senderAccountResolved" /\ last.arg[1] < last.flow.transferAmount =>
        LET shown == [status |-> "error",
                      error |-> "Insufficient USDC balance. You have "
                                    \o UsdcText[last.arg[1]] \o " USDC"]
        IN  /\ LastSet(last.flow) = shown
            /\ StepAlive => txState = shown
            /\ flows[last.id].pc = "done"
            /\ last.flow.signArgs = <<>>
            /\ ~Called(last.flow, "signAndSendTransaction")

\* A balance one base unit short of the amount, shown by the mounted form.
C4_Witness ==
    /\ last.op = "senderAccountResolved"
    /\ last.arg[1] = 499999 /\ last.flow.transferAmount = 500000
    /\ StepAlive
    /\ txState = Failed("Insufficient USDC balance. You have 0.499999 USDC")

\* C5: when the recipient's token account was not found and the sender's
\* SOL balance is below 2039280 lamports, the flow ends in status error
\* with the funding prompt and never signs.
C5_InsufficientRent ==
    last.op = "getBalanceResolved" /\ last.arg[1] < 2039280 =>
        LET shown == [status |-> "error",
                      error |-> "Need ~0.002 SOL to create recipient's token account. You have "
                                    \o SolText[last.arg[1]]
                                    \o " SOL. Get more SOL from faucet.solana.com"]
        IN  /\ Called(last.flow, "getAccount(recipient)")
            /\ LastSet(last.flow) = shown
            /\ StepAlive => txState = shown
            /\ flows[last.id].pc = "done"
            /\ last.flow.signArgs = <<>>
            /\ ~Called(last.flow, "signAndSendTransaction")

\* A SOL balance one lamport short of the threshold, shown by the mounted
\* form.
C5_Witness ==
    /\ last.op = "getBalanceResolved"
    /\ last.arg[1] = 2039279
    /\ StepAlive
    /\ txState.status = "error"
    /\ txState.error = MsgNeedSol[2039279]

\* signAndSendTransaction has just resolved: the flow passed the success
\* state with the returned signature to setTxState and cleared the fields,
\* and the mounted form shows it.
SignResolvedShown ==
    last.op = "signResolved" =>
        LET shown == [status |-> "success", signature |-> last.arg[1]]
        IN  /\ last.flow.sets = <<Pending, shown>>
            /\ last.flow.clearedFields
            /\ StepAlive => txState = shown /\ recipient = <<>> /\ amount = <<>>

\* The status becomes success only as signAndSendTransaction resolves, with
\* the signature it returned.
SuccessOnlyBySigning ==
    txState'.status = "success" /\ txState' # txState =>
        /\ last'.op = "signResolved"
        /\ txState' = [status |-> "success", signature |-> last'.arg[1]]

\* C6: whenever signAndSendTransaction resolves with a signature the status
\* becomes success with exactly that signature and both fields become
\* empty; success is reached in no other way.
C6_SuccessCarriesSignature == [](SignResolvedShown) /\ [][SuccessOnlyBySigning]_vars

\* The second signature returned to a mounted form whose fields were filled.
C6_Witness ==
    /\ last.op = "signResolved" /\ last.arg[1] = "sig2"
    /\ StepAlive
    /\ txState = [status |-> "success", signature |-> "sig2"]
    /\ recipient = <<>> /\ amount = <<>>

\* C7, as claimed: at most one submission is in flight at any time.
C7_AtMostOneInFlight == Cardinality(InFlight) <= 1

\* No call appears twice in a sequence of calls.
NoRepeat(calls) == \A j, k \in 1..Len(calls) : calls[j] = calls[k] => j = k

\* A flow has passed an error state to setTxState.
HasFailed(f) == \E k \in 1..Len(f.sets) : f.sets[k].status = "error"

\* No flow has repeated a call, a flow that is still to make calls has not
\* failed, and a step that reports a failure is the last of its flow.
OncePerSubmit ==
    /\ \A i \in FlowIds :
          /\ NoRepeat(flows[i].calls)
          /\ flows[i].pc # "done" => ~HasFailed(flows[i])
    /\ last.op # "" =>
          /\ NoRepeat(last.flow.calls)
          /\ HasFailed(last.flow) =>
                /\ LastSet(last.flow).status = "error"
                /\ last.flow.pc = "done"
                /\ flows[last.id].pc = "done"

\* A flow that has returned does nothing any more, and a flow is started by
\* a submit alone.
FailureIsTerminal ==
    /\ \A i \in FlowIds : flows[i].pc = "done" => flows'[i] = flows[i]
    /\ Len(flows') # Len(flows) =>
          /\ Len(flows') = Len(flows) + 1
          /\ last'.op = "handleSubmit" /\ last'.id = Len(flows')

\* C8: no retry: within one submit each external call is made at most once,
\* and after a failure the flow makes no further call; only a new submit
\* starts calls again.
C8_NoRetry == [](OncePerSubmit) /\ [][FailureIsTerminal]_vars

\* The SOL balance query rejected: the flow made each of its five calls
\* once and has returned.
C8_Witness ==
    /\ last.op = "getBalanceRejected"
    /\ last.flow.calls = <<"getAssociatedTokenAddress(sender)",
                           "getAssociatedTokenAddress(recipient)",
                           "getAccount(sender)", "getAccount(recipient)", "getBalance">>
    /\ LastSet(last.flow).status = "error"
    /\ flows[last.id].pc = "done"

\* The step just taken was a failure: a validation failed, the conversion
\* threw, a query failed or reported too little, or the signing call
\* rejected.
FailingStep ==
    \/ Submit /\ (NoSigner \/ BadRecipient \/ BadAmount \/ SubmitAmountNum.kind = "inf")
    \/ last.op \in {"senderAccountRejected", "getBalanceRejected", "signRejected"}
    \/ last.op = "senderAccountResolved" /\ last.arg[1] < last.flow.transferAmount
    \/ last.op = "getBalanceResolved" /\ last.arg[1] < 2039280

\* A failing step ends its flow in status error with a non-empty message,
\* which the mounted form shows; no flow returns in another status than
\* success or error.
FailureShown ==
    /\ FailingStep =>
          /\ last.flow.pc = "done" /\ flows[last.id].pc = "done"
          /\ LastSet(last.flow).status = "error"
          /\ LastSet(last.flow).error # ""
          /\ StepAlive => txState = LastSet(last.flow)
    /\ last.op # "" /\ last.flow.pc = "done" =>
          /\ last.flow.sets # <<>>
          /\ LastSet(last.flow).status \in {"success", "error"}

\* Every flow in flight returns, and a mounted form in status pending comes
\* to status success or error (or is unmounted by a disconnect).
PendingSettles ==
    /\ \A i \in 1..MaxSubmits : (i \in InFlight) ~> (i \in FlowIds /\ i \notin InFlight)
    /\ (isConnected /\ txState.status = "pending")
          ~> (~isConnected \/ txState.status \in {"success", "error"})

\* C9: every failing path ends in status error with a non-empty message,
\* never in pending or idle; and, every awaited call settling in the end, a
\* status of pending becomes success or error.
C9_FailureReturnsToError == [](FailureShown) /\ PendingSettles

\* The sender's account query rejected under a mounted form in status
\* pending, which now shows the error.
C9_Witness ==
    /\ last.op = "senderAccountRejected"
    /\ last.flow.sets = <<[status |-> "pending"],
                          [status |-> "error",
                           error |-> "No USDC balance found. Please fund your wallet with USDC first."]>>
    /\ StepAlive
    /\ txState = LastSet(last.flow)

\* The literal the claim assigns to each of the values thrown.
ExpectedLiteral ==
    LET lamports     == "Need more SOL to create recipient's token account. Get SOL from faucet.solana.com"
        insufficient == "Insufficient funds for this transaction."
        rejected     == "Transaction was rejected."
        timedOut     == "Transaction timed out. Please try again."
        network      == "Network error. Please check your connection."
        tokenAccount == "Token account error. Please try again."
        cancelled    == "Operation was cancelled. Please try again."
        generic      == "Transfer failed. Please try again."
    IN  (ErrorValue("Error", W_insufficient_lamports) :> lamports)
     @@ (ErrorValue("Error", <<"T", "x", " ">> \o W_rejected \o <<":", " ">> \o W_lamports)
            :> lamports)
     @@ (ErrorValue("Error", W_Insufficient \o <<" ", "f", "u", "n", "d", "s">>) :> insufficient)
     @@ (ErrorValue("Error", W_rejected \o <<":", " ">> \o W_insufficient) :> insufficient)
     @@ (ErrorValue("Error", <<"U", "s", "e", "r", " ">> \o W_rejected) :> rejected)
     @@ (ErrorValue("Error", W_timeout \o <<",", " ">> \o W_Rejected) :> rejected)
     @@ (ErrorValue("Error", <<"R", "e", "q", "u", "e", "s", "t", " ">> \o W_timed_out)
            :> timedOut)
     @@ (ErrorValue("Error", W_Network \o <<" ">> \o W_timeout) :> timedOut)
     @@ (ErrorValue("Error", W_network) :> network)
     @@ (ErrorValue("Error", W_TokenOwnerOffCurve \o <<" ">> \o W_network) :> network)
     @@ (ErrorValue("TokenOwnerOffCurveError", <<>>) :> tokenAccount)
     @@ (ErrorValue("TokenOwnerOffCurveError", W_cancelled) :> tokenAccount)
     @@ (ErrorValue("Error", W_cancelled \o <<" ">> \o W_TokenOwnerOffCurve) :> tokenAccount)
     @@ (ErrorValue("Error", W_not_allowed) :> cancelled)
     @@ (ErrorValue("Error", W_cancelled) :> cancelled)
     @@ (ErrorValue("Error", <<"L", "a", "m", "p", "o", "r", "t", "s">>) :> generic)
     @@ (ErrorValue("Error", <<"b", "o", "o", "m">>) :> generic)
     @@ (NonErrorValue(W_rejected) :> generic)
     @@ (NonErrorValue(W_lamports) :> generic)

\* C10: a caught error is shown as the one literal the first matching test
\* selects, in the order lamports, insufficient, rejected, timeout,
\* network, TokenOwnerOffCurve, not allowed/cancelled; every other error,
\* and every thrown value that is not an Error, as the generic literal.
C10_ErrorClassification ==
    /\ last.op \in {"getBalanceRejected", "signRejected"} =>
          /\ last.arg[1] \in DOMAIN ExpectedLiteral
          /\ LastSet(last.flow) =
                [status |-> "error", error |-> ExpectedLiteral[last.arg[1]]]
          /\ StepAlive => txState = LastSet(last.flow)
    /\ Submit /\ ~NoSigner /\ ~BadRecipient /\ SubmitAmountNum.kind = "inf"
              /\ ~SubmitAmountNum.neg =>
          last.flow.sets = <<[status |-> "pending"],
                             [status |-> "error",
                              error |-> "Transfer failed. Please try again."]>>

\* The signing call rejected with a message holding both "rejected" and
\* "lamports": the mounted form shows the need-more-SOL literal.
C10_Witness ==
    /\ last.op = "signRejected"
    /\ last.arg[1] = ErrorValue("Error", <<"T", "x", " ">> \o W_rejected \o <<":", " ">> \o W_lamports)
    /\ StepAlive
    /\ txState = [status |-> "error",
                  error |-> "Need more SOL to create recipient's token account. Get SOL from faucet.solana.com"]

\* The literals the form can show, and the two balance messages for every
\* balance the queries can return.
ClassifiedLiterals ==
    { "Wallet not connected", "Invalid recipient address", "Please enter an amount",
      "Amount must be greater than 0",
      "No USDC balance found. Please fund your wallet with USDC first.",
      "Transfer failed. Please try again.",
      "Need more SOL to create recipient's token account. Get SOL from faucet.solana.com",
      "Insufficient funds for this transaction.", "Transaction was rejected.",
      "Transaction timed out. Please try again.",
      "Network error. Please check your connection.",
      "Token account error. Please try again.",
      "Operation was cancelled. Please try again." }

BalanceLiterals ==
    { "Insufficient USDC balance. You have " \o UsdcText[a] \o " USDC" : a \in DOMAIN UsdcText }
    \cup { "Need ~0.002 SOL to create recipient's token account. You have " \o SolText[b]
               \o " SOL. Get more SOL from faucet.solana.com" : b \in DOMAIN SolText }

\* C11: in every state with status error the text displayed is one of the
\* fixed literals or one of the two balance messages; every error state a
\* flow passes to setTxState is one of these too, whatever the caught value
\* carries.
C11_OnlyClassifiedShown ==
    /\ txState.status = "error" =>
          /\ txState.error \in ClassifiedLiterals \cup BalanceLiterals
          /\ DisplayedError = txState.error
    /\ \A k \in 1..Len(last.flow.sets) :
          last.flow.sets[k].status = "error" =>
              last.flow.sets[k].error \in ClassifiedLiterals \cup BalanceLiterals

\* The signing call rejected with a message that matches no rule: the
\* mounted form shows the generic literal, not "boom".
C11_Witness ==
    /\ last.op = "signRejected"
    /\ last.arg[1] = ErrorValue("Error", <<"b", "o", "o", "m">>)
    /\ StepAlive
    /\ txState.status = "error"
    /\ DisplayedError = "Transfer failed. Please try again."

\* The decimal value of the amounts that reach the conversion, as numerator
\* and number of decimals.
AmountDecimal ==
    (<<"1">> :> <<1, 0>>) @@ (<<"1", "x">> :> <<1, 0>>) @@ (<<"1", ".", "e", "0">> :> <<1, 0>>)
 @@ (<<"0", ".", "5">> :> <<5, 1>>) @@ (<<".", "5">> :> <<5, 1>>)
 @@ (<<"5", "e", "-", "1">> :> <<5, 1>>)
 @@ (<<"0", ".", "1">> :> <<1, 1>>)
 @@ (<<"1", ".", "0", "0", "0", "0", "0", "0", "5">> :> <<10000005, 7>>)
 @@ (<<"0", ".", "9", "9", "9", "9", "9", "9", "6">> :> <<9999996, 7>>)

\* units is an integer nearest to num / 10^decimals * 10^6.
NearestBaseUnits(units, num, decimals) ==
    IF decimals <= 6 THEN units = num * Pow10(6 - decimals)
    ELSE LET scale == Pow10(decimals - 6)
             q     == num \div scale
             r     == num % scale
         IN  /\ 2 * r < scale => units = q
             /\ 2 * r > scale => units = q + 1
             /\ 2 * r = scale => units \in {q, q + 1}

\* C12: the conversion yields the amount times 10^6 rounded to the nearest
\* integer: 0.1 yields 100000 base units and 1.0000005 yields 1000001.
C12_RoundsToNearest ==
    Submit /\ ~NoSigner /\ ~BadRecipient /\ SubmitAmount \in DOMAIN AmountDecimal =>
        /\ last.flow.pc = "senderAccount"
        /\ NearestBaseUnits(last.flow.transferAmount,
                            AmountDecimal[SubmitAmount][1], AmountDecimal[SubmitAmount][2])
        /\ SubmitAmount = <<"0", ".", "1">> => last.flow.transferAmount = 100000
        /\ SubmitAmount = <<"1", ".", "0", "0", "0", "0", "0", "0", "5">>
              => last.flow.transferAmount = 1000001

\* A submit of 1.0000005 converted to 1000001 base units.
C12_Witness ==
    /\ Submit
    /\ SubmitAmount = <<"1", ".", "0", "0", "0", "0", "0", "0", "5">>
    /\ last.flow.transferAmount = 1000001
    /\ txState.status = "pending"

StaysMounted == isConnected /\ isConnected' /\ formId' = formId

SettleOps ==
    {"senderAccountResolved", "senderAccountRejected", "getBalanceResolved",
     "getBalanceRejected", "signResolved", "signRejected"}

\* The flow of the step taken set the status to pending before its last
\* state.
PassedPending ==
    \E k \in 1..(Len(last'.flow.sets) - 1) : last'.flow.sets[k].status = "pending"

\* The lifecycle as claimed: pending only by a submit, success or error
\* only after pending and as an external call settles, idle only by
\* dismissal.
LifecycleAsClaimed ==
    StaysMounted /\ txState' # txState =>
        /\ txState'.status = "pending" => last'.op = "handleSubmit"
        /\ txState'.status \in {"success", "error"} =>
              /\ last'.op # ""
              /\ PassedPending
        /\ txState'.status = "idle" => HandleDismiss

C17_AsClaimed == [][LifecycleAsClaimed]_vars

\* The lifecycle of the code: pending is entered only by a submit; success
\* only from pending, as the signing call resolves; error either from
\* pending as an awaited call settles, or directly by a submit that fails
\* (from idle, success or error); idle is re-entered only by dismissal, from
\* success or error.
Lifecycle ==
    StaysMounted /\ txState' # txState =>
        /\ txState'.status = "pending" =>
              /\ last'.op = "handleSubmit"
              /\ txState.status \in {"idle", "success", "error"}
        /\ txState'.status = "success" =>
              /\ txState.status = "pending"
              /\ last'.op = "signResolved"
        /\ txState'.status = "error" =>
              \/ txState.status = "pending" /\ last'.op \in SettleOps
              \/ /\ last'.op = "handleSubmit"
                 /\ txState.status \in {"idle", "success", "error"}
                 /\ last'.flow.pc = "done"
        /\ txState'.status = "idle" =>
              /\ HandleDismiss
              /\ txState.status \in {"success", "error"}

\* C17, amended.
C17_Lifecycle == [][Lifecycle]_vars

\* A click on the enabled button with amount 0: the status is error and was
\* never pending.
C17_Witness ==
    /\ Submit
    /\ last.arg[2] = <<"0">>
    /\ last.flow.sets = <<[status |-> "error", error |-> "Amount must be greater than 0"]>>
    /\ txState.status = "error"

\* The batch of a signing call: one or two instructions, the transfer last,
\* the account creation first exactly when the recipient lookup failed, and
\* the fee requested in USDC.
BatchOf(f) ==
    LET args   == f.signArgs[1]
        n      == Len(args.instructions)
        failed == Called(f, "getBalance")
    IN  /\ Len(f.signArgs) = 1
        /\ args.feeToken = "USDC"
        /\ n \in {1, 2}
        /\ args.instructions[n].type = "transfer"
        /\ args.instructions[n].amount = f.transferAmount
        /\ args.instructions[n].destination.owner = f.recipient
        /\ args.instructions[n].owner = f.pubkey
        /\ n = 2 <=> failed
        /\ n = 2 => /\ args.instructions[1].type = "createAssociatedTokenAccount"
                    /\ args.instructions[1].owner = f.recipient
                    /\ args.instructions[1].payer = f.pubkey

\* C18: every batch passed to signAndSendTransaction has the transfer
\* instruction last and has length 1 or 2; it has length 2, the account
\* creation first, exactly when the recipient lookup failed in that submit;
\* the call requests feeToken USDC.
C18_InstructionBatch ==
    /\ \A i \in FlowIds :
          IF flows[i].pc = "sign" THEN BatchOf(flows[i]) ELSE flows[i].signArgs = <<>>
    /\ last.op # "" =>
          IF Called(last.flow, "signAndSendTransaction")
          THEN BatchOf(last.flow)
          ELSE last.flow.signArgs = <<>>
    /\ last.op = "recipientAccountResolved" =>
          Len(last.flow.signArgs[1].instructions) = 1
    /\ last.op = "getBalanceResolved" /\ last.arg[1] >= 2039280 =>
          Len(last.flow.signArgs[1].instructions) = 2

\* The recipient lookup failed and the SOL balance suffices: the batch is
\* the account creation, then the transfer of 0.5 USDC.
C18_Witness ==
    /\ last.op = "getBalanceResolved"
    /\ flows[last.id].pc = "sign"
    /\ Len(last.flow.signArgs[1].instructions) = 2
    /\ last.flow.signArgs[1].instructions[1].type = "createAssociatedTokenAccount"
    /\ last.flow.signArgs[1].instructions[2].type = "transfer"
    /\ last.flow.signArgs[1].instructions[2].amount = 500000

\* The step just taken was a balance fetch hitting a failure, under the
\* mounted panel.
FetchFailed ==
    /\ last.op \in {"fetchSolRejected", "fetchTokenRejected"}
    /\ isConnected /\ last.flow.mount = formId

\* C13, as claimed: whenever a balance refresh hits a failure of the SOL
\* balance query or of the USDC token-account query, the snapshot is set to
\* sol = null and usdc = null.
C13_NullOnFetchFailure ==
    FetchFailed => balances.sol = [null |-> TRUE] /\ balances.usdc = [null |-> TRUE]

\* The intervals scheduled are the one of the mounted panel, closed over the
\* current wallet, and no other.
OneLiveInterval ==
    { t \in timers : t.kind = "interval" } =
        IF isConnected
        THEN {[kind |-> "interval", mount |-> formId, wallet |-> smartWalletPubkey]}
        ELSE {}

\* A mount with a wallet starts one fetch at once; a tick of the interval
\* starts one further fetch; a fetch is started by the mounted panel alone,
\* with the current wallet.
PollerStep ==
    /\ formId' # formId /\ smartWalletPubkey' # NoKey =>
          /\ Len(fetches') = Len(fetches) + 1
          /\ fetches'[Len(fetches')].mount = formId'
          /\ fetches'[Len(fetches')].pc = "getBalance"
    /\ last'.op = "tick" /\ last' # last /\ smartWalletPubkey # NoKey =>
          Len(fetches') = Len(fetches) + 1
    /\ Len(fetches') # Len(fetches) =>
          /\ Len(fetches') = Len(fetches) + 1
          /\ isConnected'
          /\ fetches'[Len(fetches')].mount = formId'
          /\ fetches'[Len(fetches')].wallet = smartWalletPubkey'
          /\ \/ formId' # formId
             \/ last'.op \in {"tick", "walletChanged", "refresh"}

\* C14: the poller starts one fetch at once when the panel mounts with a
\* wallet and a further one on every tick while mounted; after the unmount,
\* and after a wallet change for the old timer, no timer is left to start a
\* fetch.
C14_PollerLifecycle == [](OneLiveInterval) /\ [][PollerStep]_vars

\* A tick under the mounted panel: the fetch of the mount and the fetch of
\* the tick are both in flight.
C14_Witness ==
    /\ last.op = "tick"
    /\ isConnected
    /\ Len(fetches) = 2
    /\ fetches[1].pc # "done" /\ fetches[2].pc # "done"
    /\ fetches[1].mount = formId /\ fetches[2].mount = formId

\* The snapshot a fetch stores as it returns.
StoredSnapshot ==
    IF last.op = "fetchSolRejected"
    THEN [sol |-> [null |-> TRUE], usdc |-> [null |-> TRUE], loading |-> FALSE]
    ELSE IF last.op = "fetchTokenRejected"
    THEN [sol |-> last.flow.sol, usdc |-> [units |-> 0, per |-> 1], loading |-> FALSE]
    ELSE [sol |-> last.flow.sol,
          usdc |-> IF last.arg[3] = 0 THEN [units |-> 0, per |-> 1]
                   ELSE [units |-> last.arg[3], per |-> 1000000],
          loading |-> FALSE]

\* C19: fetches overlap unguarded, and the snapshot, loading flag included,
\* is overwritten by every fetch that returns under the mounted panel,
\* whichever fetch was started last.
C19_LastResolverWins ==
    /\ last.op \in {"fetchSolRejected", "fetchTokenRejected", "fetchTokenResolved"}
          /\ isConnected /\ last.flow.mount = formId
          => balances = StoredSnapshot
    /\ last.op \in {"tick", "walletChanged"} /\ smartWalletPubkey # NoKey /\ isConnected
          => balances.loading

\* The fetch started first returns after the one started second, and its
\* numbers replace the newer ones.
C19_Witness ==
    /\ last.op = "fetchTokenResolved"
    /\ last.id = 1
    /\ Len(fetches) = 2 /\ fetches[2].pc = "done"
    /\ isConnected /\ last.flow.mount = formId
    /\ ~last.arg[2].loading
    /\ last.arg[2].sol # [null |-> TRUE]
    /\ last.arg[2].sol # last.flow.sol
    /\ balances.sol = last.flow.sol

\* A submission is in flight whose form has been unmounted.
UnmountedWhilePending ==
    \E i \in 1..Len(flows) :
        flows[i].pc # "done" /\ ~(isConnected /\ flows[i].form = formId)

\* C15, as claimed: after the form is unmounted with a submission pending, no
\* polling interval and no copy-feedback timeout of the unmounted page
\* remains scheduled.
C15_AsClaimed ==
    UnmountedWhilePending => \A t \in timers : isConnected /\ t.mount = formId

\* What an unmount, a timer set for an unmounted panel, and a signing call
\* settling after the unmount do.
UnmountStep ==
    /\ isConnected /\ ~isConnected' =>
          /\ \A t \in timers' : t.mount # formId
          /\ timers' \subseteq timers
    /\ \A t \in timers' \ timers :
          ~(isConnected' /\ t.mount = formId') =>
              /\ t.kind = "timeout"
              /\ \E c \in 1..Len(copies) : copies[c].pc = "writeText" /\ copies'[c].pc = "done"
    /\ \A i \in 1..Len(flows) :
          /\ flows[i].pc = "sign" /\ flows'[i].pc = "done"
          /\ ~(isConnected /\ flows[i].form = formId)
          => /\ flows'[i] = Returned
             /\ UNCHANGED <<isConnected, smartWalletPubkey, formId, recipient, amount, txState,
                            balances, copied, timers, fetches, copies>>

\* C15: the unmount of the page clears the polling interval and every
\* copy-feedback timeout its panel has scheduled; the signing call of a
\* submission pending at the unmount settles later by returning, changing
\* nothing of the page; a timer is set for an unmounted panel only by a copy
\* whose clipboard write was pending at the unmount.
C15_UnmountClearsTimers == [][UnmountStep]_vars

\* The signing call rejects after the page was unmounted with the
\* submission pending and a copy made: nothing is scheduled, the form is idle.
C15_Witness ==
    /\ ~isConnected
    /\ last.op = "signRejected"
    /\ last.flow.form = formId
    /\ timers = {}
    /\ txState = Idle
    /\ \E c \in 1..Len(copies) : copies[c].pc = "done"

\* The signing call of a submission of the mounted form rejects: the status
\* becomes error and the fields stay as they are, whether the transfer was
\* performed or not.
RejectionKeepsForm ==
    \A i \in 1..Len(flows) :
        /\ flows[i].pc = "sign" /\ flows'[i].pc = "done"
        /\ last'.op = "signRejected"
        /\ isConnected /\ flows[i].form = formId
        => /\ txState'.status = "error"
           /\ recipient' = recipient
           /\ amount' = amount
           /\ txState' = [status |-> "error", error |-> txState'.error]

\* After the rejection the submit button is as the fields alone make it, and
\* a click on it submits again.
RejectionAllowsSubmit ==
    /\ last.op = "signRejected"
    /\ isConnected /\ last.flow.form = formId
    /\ Len(flows) < MaxSubmits
    /\ IsValidAddress(recipient)
    /\ Trim(amount) # <<>>
    => ENABLED (ClickSubmit /\ FormAlone)

\* C20: a signing call that rejects leaves the form in error with its fields
\* unchanged and the submit button enabled, whether or not the network
\* performed the transfer; so a transfer performed but reported as failed
\* can be submitted again and performed a second time.
C20_ResubmissionNotPrevented == [](RejectionAllowsSubmit) /\ [][RejectionKeepsForm]_vars

\* The same transfer performed twice, the first time behind a rejected
\* call, the fields having stayed as they were.
C20_Witness ==
    /\ Len(ledger) = 2
    /\ ledger[1].reported = "rejected"
    /\ ledger[1].instructions[Len(ledger[1].instructions)]
           = ledger[2].instructions[Len(ledger[2].instructions)]
    /\ ledger[1].instructions[Len(ledger[1].instructions)].type = "transfer"

\* C21, as claimed: the sender's lookup ends in "No USDC balance found" only
\* when the sender has no token account, and the recipient's lookup leads to
\* the account creation only when the recipient's token account is absent; a
\* lookup failing for another reason is not taken for a missing account.
C21_MissingAccountOnly ==
    /\ last.op = "senderAccountRejected"
          /\ last.arg[1].name # "TokenAccountNotFoundError"
          => last.flow.sets[Len(last.flow.sets)].error
                 # "No USDC balance found. Please fund your wallet with USDC first."
    /\ last.op = "recipientAccountRejected"
          /\ last.arg[1].name # "TokenAccountNotFoundError"
          => last.flow.pc # "solBalance"

BothOrNeither ==
    (balances.sol = [null |-> TRUE]) <=> (balances.usdc = [null |-> TRUE])

\* Numbers give way to null only as a fetch returns from a failed SOL query
\* (or as the panel unmounts, its state gone); null gives way to numbers
\* only as a fetch returns from its token query; and a fetch starting under
\* the mounted panel sets loading and keeps sol and usdc.
CacheStep ==
    /\ balances.sol # [null |-> TRUE] /\ balances'.sol = [null |-> TRUE] =>
          \/ ~isConnected'
          \/ /\ last'.op = "fetchSolRejected"
             /\ \E j \in 1..Len(fetches) :
                   fetches[j].pc = "getBalance" /\ fetches'[j].pc = "done"
    /\ balances.sol = [null |-> TRUE] /\ balances'.sol # [null |-> TRUE] =>
          /\ last'.op \in {"fetchTokenResolved", "fetchTokenRejected"}
          /\ \E j \in 1..Len(fetches) :
                fetches[j].pc = "getAccount" /\ fetches'[j].pc = "done"
    /\ Len(fetches') = Len(fetches) + 1 /\ formId' = formId =>
          /\ balances'.loading
          /\ balances'.sol = balances.sol
          /\ balances'.usdc = balances.usdc

\* C23: in every state of the balance cache sol and usdc are both null or
\* both numbers; they are null only before the first fetch of the panel
\* returns or after a fetch whose SOL query failed; a fetch in progress
\* keeps the previous sol and usdc.
C23_CacheShape == [](BothOrNeither) /\ [][CacheStep]_vars

\* A fetch started by a tick or the Refresh button is in progress over the
\* numbers of the fetch before it.
C23_Witness ==
    /\ last.op \in {"tick", "refresh"}
    /\ isConnected
    /\ balances.loading
    /\ balances.sol # [null |-> TRUE]
    /\ balances.usdc # [null |-> TRUE]
    /\ \E j \in 1..Len(fetches) : fetches[j].pc = "getBalance" /\ fetches[j].mount = formId

\* A step of a submission that ends it in status error leaves the fields as
\* they are; under a mounted form the fields change only by an edit of the
\* user (no submission takes a step, the status stays) or by the clear as
\* the signing call resolves.
FieldsFrame ==
    /\ flows' # flows /\ last'.flow.pc = "done"
          /\ last'.flow.sets[Len(last'.flow.sets)].status = "error"
          => recipient' = recipient /\ amount' = amount
    /\ isConnected /\ isConnected' /\ formId' = formId
          /\ (recipient' # recipient \/ amount' # amount)
          => \/ /\ flows' = flows
                /\ txState' = txState
                /\ recipient' = recipient \/ amount' = amount
             \/ /\ last'.op = "signResolved"
                /\ flows' # flows
                /\ recipient' = <<>> /\ amount' = <<>>
                /\ txState'.status = "success"

\* C24: on every failing path of a submit (validation error, insufficient
\* balance, missing sender account, insufficient rent funds, rejected
\* signing call) the recipient and amount fields are left unchanged; they
\* are modified only by user edits and by the clear on success.
C24_FailureKeepsFields == [][FieldsFrame]_vars

\* The rent check has failed under the mounted form, which shows the error
\* over the fields as they were submitted.
C24_Witness ==
    /\ last.op = "getBalanceResolved"
    /\ last.flow.pc = "done"
    /\ isConnected /\ last.flow.form = formId
    /\ txState.status = "error"
    /\ Trim(recipient) = last.flow.recipient
    /\ amount # <<>>

\* What a submit captured of the fields.
Captured(f) == [recipient |-> f.recipient, amount |-> f.transferAmount, owner |-> f.pubkey]

\* A submit captures the trimmed recipient and the base units of the amount
\* the fields hold; the batch of a signing call is built from what its
\* submit captured.
SentAsSubmitted ==
    /\ last.op = "handleSubmit" /\ last.flow.pc # "done" =>
          /\ last.flow.recipient = Trim(last.arg[1])
          /\ last.flow.transferAmount
                 = SanitizedTable[last.flow.pubkey, last.arg[1], last.arg[2]].units.value
    /\ \A i \in 1..Len(flows) : \A k \in 1..Len(flows[i].signArgs) :
          LET batch == flows[i].signArgs[k].instructions
              transfer == batch[Len(batch)]
          IN  /\ transfer.type = "transfer"
              /\ transfer.amount = flows[i].transferAmount
              /\ transfer.destination.owner = flows[i].recipient
              /\ transfer.owner = flows[i].pubkey

\* No step changes what a submission in flight captured, whatever the fields
\* become; and the signing call resolving under the mounted form empties
\* both fields, whatever they held.
CapturedStep ==
    /\ \A i \in 1..Len(flows) :
          flows[i].pc # "done" /\ flows'[i].pc # "done" =>
              Captured(flows'[i]) = Captured(flows[i])
    /\ \A i \in 1..Len(flows) :
          /\ flows[i].pc = "sign" /\ flows'[i].pc = "done"
          /\ last'.op = "signResolved"
          /\ isConnected /\ flows[i].form = formId
          => recipient' = <<>> /\ amount' = <<>>

\* C25: the values sent in a transfer are those of the fields at the submit;
\* edits of the fields while the status is pending do not change the
\* recipient or the amount of the transfer in flight, and its success
\* empties both fields, discarding what was typed meanwhile.
C25_SubmittedValuesSent == [](SentAsSubmitted) /\ [][CapturedStep]_vars

\* A submission of amount 1 is suspended at the signing call while the
\* fields of its form have been edited to another recipient and amount.
C25_Witness ==
    \E i \in 1..Len(flows) :
        /\ flows[i].pc = "sign"
        /\ isConnected /\ flows[i].form = formId
        /\ txState.status = "pending"
        /\ flows[i].transferAmount = 1000000
        /\ flows[i].recipient = <<"A">>
        /\ amount = <<"0", ".", "5">>
        /\ recipient = <<"x">>

\* C26, as claimed: the status panel renders nothing exactly when the status
\* is idle; a success without a signature shows a panel too.
C26_AsClaimed ==
    (TxStatusPanel(txState) = "none") <=> (txState.status = "idle")

\* C26: the status panel renders nothing exactly when the status is idle or
\* the status is success with an empty signature; otherwise it shows the
\* panel of the status, and it offers the dismiss action exactly in the
\* success panel and in the error panel.
C26_PanelOfStatus ==
    /\ (TxStatusPanel(txState) = "none") <=>
          \/ txState.status = "idle"
          \/ txState.status = "success" /\ txState.signature = ""
    /\ TxStatusPanel(txState) # "none" => TxStatusPanel(txState) = txState.status
    /\ DismissShown <=> TxStatusPanel(txState) \in {"success", "error"}

\* The signing call has resolved with a signature under the mounted form:
\* the success panel is shown, with the dismiss action.
C26_Witness ==
    /\ last.op = "signResolved"
    /\ isConnected /\ last.flow.form = formId
    /\ txState = [status |-> "success", signature |-> "sig1"]
    /\ TxStatusPanel(txState) = "success"
    /\ DismissShown

\* At most one connect() is in flight; the tip is shown exactly while one
\* is; and the connect button is rendered only with the tip and isConnecting
\* both false.
OneConnect ==
    /\ \A c, d \in 1..Len(connects) :
          connects[c].pc = "connect" /\ connects[d].pc = "connect" => c = d
    /\ showTip <=> \E c \in 1..Len(connects) : connects[c].pc = "connect"
    /\ ConnectWalletButton = "connect" => ~isConnecting /\ ~showTip

\* connect() is invoked only with no connect() in flight and the tip and
\* isConnecting both false.
ConnectStarts ==
    Len(connects') # Len(connects) =>
        /\ \A c \in 1..Len(connects) : connects[c].pc = "done"
        /\ ~showTip /\ ~isConnecting
        /\ showTip'

\* C27: connect() cannot be invoked while an earlier connect() is in flight,
\* the connect button being replaced by the disabled one while isConnecting
\* or the tip flag is set; and the tip flag is false whenever no connect()
\* started by the button is in flight, whether it resolved or rejected.
C27_OneConnectInFlight == [](OneConnect) /\ [][ConnectStarts]_vars

\* A second connect() is in flight after the first one rejected: the tip is
\* shown again, and the page is not connected.
C27_Witness ==
    /\ Len(connects) = 2
    /\ connects[1].pc = "done" /\ connects[2].pc = "connect"
    /\ showTip
    /\ ~isConnected
    /\ ConnectWalletButton = "connecting"

(***************************************************************************)
(* C28: the boundaries of the two balance checks.                          *)
(***************************************************************************)
\* The sender's token balance equalled the amount in base units: no error
\* is set (the flow has passed nothing but the pending state to setTxState)
\* and the flow goes on to look up the recipient's token account.
BalanceBoundaryPasses ==
    last.op = "senderAccountResolved" /\ last.arg[1] = last.flow.transferAmount =>
        /\ flows[last.id].pc = "recipientAccount"
        /\ Called(last.flow, "getAccount(recipient)")
        /\ last.flow.sets = <<Pending>>

\* The SOL balance equalled the rent threshold: no error is set and the
\* flow calls signAndSendTransaction with the account creation included.
RentBoundaryPasses ==
    last.op = "getBalanceResolved" /\ last.arg[1] = rentExempt =>
        /\ flows[last.id].pc = "sign"
        /\ Called(last.flow, "signAndSendTransaction")
        /\ last.flow.signArgs = <<SignArgs(last.flow, TRUE)>>
        /\ last.flow.sets = <<Pending>>

RentBoundaryReached ==
    /\ last.op = "getBalanceResolved"
    /\ last.arg[1] = 2039280
    /\ flows[last.id].pc = "sign"
    /\ StepAlive

(***************************************************************************)
(* C29: dismissal.                                                         *)
(***************************************************************************)
\* The dismiss button can be clicked only in the success panel and in the
\* error panel of a mounted form.
DismissOnlySettled ==
    ENABLED (HandleDismiss /\ FormAlone) =>
        /\ isConnected
        /\ txState.status \in {"success", "error"}
        /\ TxStatusPanel(txState) \in {"success", "error"}

\* A step of a mounted form that returns the status to idle is a dismissal
\* from success or error: the new state is {status: "idle"} alone, and the
\* fields, the balance cache, the panel and the flows stay as they were.
DismissStep ==
    StaysMounted /\ txState # Idle /\ txState' = Idle =>
        /\ txState.status \in {"success", "error"}
        /\ DOMAIN txState' = {"status"}
        /\ UNCHANGED <<recipient, amount, balances, copied, timers, fetches, copies,
                       flows, smartWalletPubkey>>

\* While the form stays mounted a pending status changes only as an
\* awaited call of a flow settles, and never to idle.
PendingKept ==
    StaysMounted /\ txState.status = "pending" /\ txState' # txState =>
        /\ last'.op \in SettleOps
        /\ txState'.status \in {"success", "error"}

\* C29: dismissal is available only in the success and error states, never
\* while pending; it sets the status to idle, dropping signature and error,
\* and leaves the recipient and amount fields and the balance cache
\* unchanged; a pending submission of a mounted form is not reset by it.
C29_Dismissal ==
    /\ [](DismissOnlySettled)
    /\ [][DismissStep]_vars
    /\ [][PendingKept]_vars

\* An error dismissed in the form that was mounted first: the status is
\* idle again, the flow has returned and the fields are as submitted.
C29_Witness ==
    /\ isConnected /\ formId = 1
    /\ txState = Idle
    /\ Len(flows) = 1 /\ flows[1].pc = "done"
    /\ recipient = <<" ", "A", " ">>
    /\ amount = <<"1">>

(***************************************************************************)
(* C30: truncateAddress.                                                   *)
(***************************************************************************)
\* The first n and the last n characters of a string.
FirstChars(s, n) == SubSeq(s, 1, n)

LastChars(s, n) == SubSeq(s, Len(s) - n + 1, Len(s))

\* What the claim says of one call: the address itself up to the length
\* 2 * chars + 3, beyond it the first chars characters, "..." and the last
\* chars characters, and never more characters than the address has.
TruncatedAsClaimed(address, chars, result) ==
    /\ Len(address) <= 2 * chars + 3 => result = address
    /\ Len(address) > 2 * chars + 3 =>
           result = FirstChars(address, chars) \o <<".", ".", ".">> \o LastChars(address, chars)
    /\ Len(result) <= Len(address)

\* C30, as claimed: for every address and every chars >= 0, truncateAddress
\* returns the address unchanged when its length is at most 2 * chars + 3,
\* and otherwise its first chars characters, "..." and its last chars
\* characters; the result is never longer than the address.
C30_AsClaimed ==
    last.op = "truncateAddress" => TruncatedAsClaimed(last.arg[1], last.arg[2], last.arg[3])

\* The same for chars >= 1, which is how the program calls it (4 and 8).
TruncatedFromOne ==
    last.op = "truncateAddress" /\ last.arg[2] >= 1 =>
        TruncatedAsClaimed(last.arg[1], last.arg[2], last.arg[3])

\* An address of 20 characters cut to 8 and 8 as WalletInfo shows it.
TruncatedReached ==
    /\ last.op = "truncateAddress"
    /\ Len(last.arg[1]) = 20 /\ last.arg[2] = 8
    /\ Len(last.arg[3]) = 19

==============================================================================
